---------------------------- MODULE Spec2Model ----------------------------
(***************************************************************************)
(* Markets-Dashboard heat-map: the treemap layout functions and the        *)
(* per-container resize-stability scheduler of src/components/heatmap.js   *)
(* (all revisions kept in the repository).                                 *)
(*                                                                         *)
(* JavaScript numbers are modelled as exact fractions <<n, d>> with d >= 0 *)
(* in lowest terms; d = 0 encodes the IEEE specials: <<1,0>> = +Infinity,  *)
(* <<-1,0>> = -Infinity, <<0,0>> = NaN.  Rounding of binary floating point *)
(* is not modelled: every statement about areas and coordinates is about   *)
(* the exact values the code's formulas denote.                            *)
(***************************************************************************)
EXTENDS Integers, Sequences, FiniteSets, TLC

(* ---------------------------------------------------------------------- *)
(* Numbers                                                                *)
(* ---------------------------------------------------------------------- *)
RECURSIVE GCD(_, _)
GCD(a, b) == IF b = 0 THEN a ELSE GCD(b, a % b)

Abs(n) == IF n < 0 THEN -n ELSE n

Sgn(n) == IF n < 0 THEN -1 ELSE IF n = 0 THEN 0 ELSE 1

Norm(n, d) ==
  IF d = 0 THEN <<Sgn(n), 0>>
  ELSE LET g == GCD(Abs(n), Abs(d))
       IN  IF d < 0 THEN <<(-n) \div g, (-d) \div g>> ELSE <<n \div g, d \div g>>

Num(n) == <<n, 1>>

Frac(n, d) == Norm(n, d)

NaN == <<0, 0>>

Infinity == <<1, 0>>

Zero == <<0, 1>>

IsNaN(a) == a[2] = 0 /\ a[1] = 0

IsFinite(a) == a[2] # 0

Neg(a) == <<-a[1], a[2]>>

RAdd(a, b) ==
  IF IsNaN(a) \/ IsNaN(b) THEN NaN
  ELSE IF a[2] = 0 THEN (IF b[2] = 0 /\ b[1] # a[1] THEN NaN ELSE a)
  ELSE IF b[2] = 0 THEN b
  ELSE LET g == GCD(a[2], b[2])
       IN  Norm(a[1] * (b[2] \div g) + b[1] * (a[2] \div g), (a[2] \div g) * b[2])

RSub(a, b) == RAdd(a, Neg(b))

RMul(a, b) ==
  IF a[2] = 0 \/ b[2] = 0 THEN <<Sgn(a[1]) * Sgn(b[1]), 0>>
  ELSE LET g1 == GCD(Abs(a[1]), b[2])
           g2 == GCD(Abs(b[1]), a[2])
       IN  Norm((a[1] \div g1) * (b[1] \div g2), (a[2] \div g2) * (b[2] \div g1))

\* 1 / a  (1/0 = +Infinity: the values divided by here are never negative zero)
RInv(a) ==
  IF IsNaN(a) THEN NaN
  ELSE IF a[2] = 0 THEN Zero
  ELSE IF a[1] = 0 THEN Infinity
  ELSE Norm(a[2], a[1])

RDiv(a, b) == RMul(a, RInv(b))

\* n1/d1 < n2/d2 for d1, d2 > 0 without forming a product: whole parts first,
\* then the remainders' reciprocals the other way round
RECURSIVE FracLt(_, _, _, _)
FracLt(n1, d1, n2, d2) ==
  IF n1 \div d1 # n2 \div d2 THEN n1 \div d1 < n2 \div d2
  ELSE IF n2 % d2 = 0 THEN FALSE
  ELSE IF n1 % d1 = 0 THEN TRUE
  ELSE FracLt(d2, n2 % d2, d1, n1 % d1)

\* a < b, a <= b as JavaScript evaluates them (false when either is NaN)
RLt(a, b) ==
  IF IsNaN(a) \/ IsNaN(b) THEN FALSE
  ELSE IF a[2] = 0 \/ b[2] = 0 THEN
         (IF a[2] = 0 /\ b[2] = 0 THEN a[1] < b[1]
          ELSE IF a[2] = 0 THEN a[1] < 0 ELSE b[1] > 0)
  ELSE FracLt(a[1], a[2], b[1], b[2])

RLe(a, b) == IF IsNaN(a) \/ IsNaN(b) THEN FALSE ELSE ~RLt(b, a)

RGt(a, b) == RLt(b, a)

RGe(a, b) == RLe(b, a)

\* Math.max / Math.min / Math.abs (NaN if an argument is NaN)
MathMax(a, b) == IF IsNaN(a) \/ IsNaN(b) THEN NaN ELSE IF RLt(a, b) THEN b ELSE a

MathMin(a, b) == IF IsNaN(a) \/ IsNaN(b) THEN NaN ELSE IF RLt(b, a) THEN b ELSE a

MathAbs(a) == <<Abs(a[1]), a[2]>>

(* ---------------------------------------------------------------------- *)
(* Symbols                                                                *)
(* ---------------------------------------------------------------------- *)
\* String(x || '').toUpperCase() on the symbols used here ("" = missing symbol)
toUpperCase(s) ==
  CASE s = "btc" -> "BTC"
    [] s = "eth" -> "ETH"
    [] s = "sol" -> "SOL"
    [] s = "xrp" -> "XRP"
    [] s = "doge" -> "DOGE"
    [] s = "ada" -> "ADA"
    [] OTHER -> s

(* ---------------------------------------------------------------------- *)
(* Layout helpers shared by the treemap functions                         *)
(* ---------------------------------------------------------------------- *)
\* sums are exact, so they are taken pairwise (halving the range) instead of
\* left to right: the same fraction with a recursion of logarithmic depth
RECURSIVE sumWeightIn(_, _, _)
sumWeightIn(nodes, lo, hi) ==
  IF lo > hi THEN Zero
  ELSE IF lo = hi THEN nodes[lo].weight
  ELSE RAdd(sumWeightIn(nodes, lo, (lo + hi) \div 2),
            sumWeightIn(nodes, (lo + hi) \div 2 + 1, hi))

\* nodes.reduce((s, n) => s + (n.weight || 0), 0)
sumWeight(nodes) == sumWeightIn(nodes, 1, Len(nodes))

RECURSIVE insertDescUnstable(_, _)
insertDescUnstable(sorted, n) ==
  IF sorted = <<>> THEN <<n>>
  ELSE IF RGe(RSub(n.weight, sorted[Len(sorted)].weight), Zero)
       THEN Append(insertDescUnstable(SubSeq(sorted, 1, Len(sorted) - 1), n),
                   sorted[Len(sorted)])
       ELSE Append(sorted, n)

\* position of n in an already sorted prefix: behind every node that is not lighter
RECURSIVE insertDesc(_, _)
insertDesc(sorted, n) ==
  IF sorted = <<>> THEN <<n>>
  ELSE IF RGt(RSub(n.weight, sorted[Len(sorted)].weight), Zero)
       THEN Append(insertDesc(SubSeq(sorted, 1, Len(sorted) - 1), n), sorted[Len(sorted)])
       ELSE Append(sorted, n)

\* [...nodes].sort((a, b) => b.weight - a.weight): stable, heaviest first
RECURSIVE sortDesc(_)
sortDesc(nodes) ==
  IF \A i \in 1..(Len(nodes) - 1) : RLe(nodes[i + 1].weight, nodes[i].weight)
  THEN nodes   \* no pair is out of order: the stable sort moves nothing
  ELSE insertDesc(sortDesc(SubSeq(nodes, 1, Len(nodes) - 1)), nodes[Len(nodes)])

\* areas taken per tile count instead of per total weight
toItemsPerCount(nodes, containerW, containerH) ==
  LET totalArea == RMul(containerW, containerH)
      sorted == sortDesc(nodes)
  IN  [i \in 1..Len(sorted) |->
         [tile |-> sorted[i].tile,
          area |-> RMul(RDiv(sorted[i].weight, Num(Len(sorted))), totalArea)]]

\* sorted.map(n => ({tile, area: (n.weight / totalWeight) * totalArea}))
toItems(nodes, containerW, containerH) ==
  LET totalWeight == sumWeight(nodes)
      totalArea == RMul(containerW, containerH)
      sorted == sortDesc(nodes)
  IN  [i \in 1..Len(sorted) |->
         [tile |-> sorted[i].tile,
          area |-> RMul(RDiv(sorted[i].weight, totalWeight), totalArea)]]

RECURSIVE sumAreaIn(_, _, _)
sumAreaIn(arr, lo, hi) ==
  IF lo > hi THEN Zero
  ELSE IF lo = hi THEN arr[lo].area
  ELSE RAdd(sumAreaIn(arr, lo, (lo + hi) \div 2), sumAreaIn(arr, (lo + hi) \div 2 + 1, hi))

\* arr.reduce((s, it) => s + it.area, 0)
sumArea(arr) == sumAreaIn(arr, 1, Len(arr))

RECURSIVE minArea(_, _)
minArea(arr, i) ==
  IF i = 0 THEN Infinity
  ELSE LET m == minArea(arr, i - 1) IN IF RLt(arr[i].area, m) THEN arr[i].area ELSE m

RECURSIVE maxArea(_, _)
maxArea(arr, i) ==
  IF i = 0 THEN Zero
  ELSE LET m == maxArea(arr, i - 1) IN IF RGt(arr[i].area, m) THEN arr[i].area ELSE m

\* max((side^2 * max) / s^2, s^2 / (side^2 * min)); the quotients side/s and
\* s/side are taken first and multiplied in one at a time, which denotes the
\* same fraction with smaller intermediate terms
worst(arr, side) ==
  IF arr = <<>> THEN Infinity
  ELSE LET s == sumArea(arr)
           min == minArea(arr, Len(arr))
           max == maxArea(arr, Len(arr))
           sideOverS == RDiv(side, s)
           sOverSide == RDiv(s, side)
       IN  MathMax(RMul(sideOverS, RMul(sideOverS, max)),
                   RMul(sOverSide, RDiv(sOverSide, min)))

RECURSIVE growStrip(_, _, _, _)
growStrip(strip, remaining, i, side) ==
  IF i > Len(remaining) THEN strip
  ELSE IF strip = <<>> THEN growStrip(<<remaining[i]>>, remaining, i + 1, side)
  ELSE IF RLe(worst(Append(strip, remaining[i]), side), worst(strip, side))
       THEN growStrip(Append(strip, remaining[i]), remaining, i + 1, side)
       ELSE strip

buildStripEmpty(remaining, side) == <<>>

\* greedy strip build (squarify rule)
buildStrip(remaining, side) == growStrip(<<>>, remaining, 1, side)

\* tiles of a row: left to right from x, the last one takes what is left up to xEnd
RECURSIVE rowRects(_, _, _, _, _, _)
rowRects(strip, i, x, y, stripH, xEnd) ==
  IF i > Len(strip) THEN <<>>
  ELSE LET w == IF i = Len(strip) THEN MathMax(Zero, RSub(xEnd, x))
                ELSE RDiv(strip[i].area, stripH)
       IN  <<[tile |-> strip[i].tile, x |-> x, y |-> y, w |-> w, h |-> stripH]>>
           \o rowRects(strip, i + 1, RAdd(x, w), y, stripH, xEnd)

\* tiles of a column: top to bottom from y, the last one takes what is left up to yEnd
RECURSIVE colRects(_, _, _, _, _, _)
colRects(strip, i, x, y, stripW, yEnd) ==
  IF i > Len(strip) THEN <<>>
  ELSE LET h == IF i = Len(strip) THEN MathMax(Zero, RSub(yEnd, y))
                ELSE RDiv(strip[i].area, stripW)
       IN  <<[tile |-> strip[i].tile, x |-> x, y |-> y, w |-> stripW, h |-> h]>>
           \o colRects(strip, i + 1, x, RAdd(y, h), stripW, yEnd)

\* the region left below a committed row / right of a committed column
rectBelow(rect, stripH) ==
  [x |-> rect.x, y |-> RAdd(rect.y, stripH), w |-> rect.w,
   h |-> MathMax(Zero, RSub(rect.h, stripH))]

rectRightOf(rect, stripW) ==
  [x |-> RAdd(rect.x, stripW), y |-> rect.y,
   w |-> MathMax(Zero, RSub(rect.w, stripW)), h |-> rect.h]

\* layoutStrip / layoutRow body: the rects pushed and the region returned
layoutStrip(strip, rectLocal, horizontal) ==
  LET s == sumArea(strip)
  IN  IF RLe(s, Zero) \/ RLe(rectLocal.w, Zero) \/ RLe(rectLocal.h, Zero)
      THEN [rect |-> rectLocal, pushed |-> <<>>]
      ELSE IF horizontal
      THEN LET stripH == RDiv(s, rectLocal.w)
           IN  [rect |-> rectBelow(rectLocal, stripH),
                pushed |-> rowRects(strip, 1, rectLocal.x, rectLocal.y, stripH,
                                    RAdd(rectLocal.x, rectLocal.w))]
      ELSE LET stripW == RDiv(s, rectLocal.h)
           IN  [rect |-> rectRightOf(rectLocal, stripW),
                pushed |-> colRects(strip, 1, rectLocal.x, rectLocal.y, stripW,
                                    RAdd(rectLocal.y, rectLocal.h))]

\* rectsPx.map(r => ({tile, x: r.x / containerW, ...}))
normalize(rectsPx, containerW, containerH) ==
  [i \in 1..Len(rectsPx) |->
     [tile |-> rectsPx[i].tile,
      x |-> RDiv(rectsPx[i].x, containerW), y |-> RDiv(rectsPx[i].y, containerH),
      w |-> RDiv(rectsPx[i].w, containerW), h |-> RDiv(rectsPx[i].h, containerH)]]

(* ---------------------------------------------------------------------- *)
(* The treemap functions, one strip per step                              *)
(*   "squarify"    computeSquarifyTreemap   (heatmap.js)                  *)
(*   "crypto"      computeCryptoTreemap     (heatmap.js)                  *)
(*   "row"         computeRowTreemap        (later revision)              *)
(*   "constrained" computeConstrainedTreemap (later revision)             *)
(* A run is a record: pc = "start" before the function body, "loop"       *)
(* between two strips, "done" once the normalized list `out` is returned. *)
(* `log` records, per loop iteration, the strip that was built.           *)
(* ---------------------------------------------------------------------- *)
SAFE_GUARD_MAX == 300

fullRect(containerW, containerH) == [x |-> Zero, y |-> Zero, w |-> containerW, h |-> containerH]

\* findIndex comparing the symbol as written, without toUpperCase()
RECURSIVE findIndexExact(_, _, _)
findIndexExact(items, sym, i) ==
  IF i > Len(items) THEN 0
  ELSE IF items[i].tile.symbol = sym THEN i
  ELSE findIndexExact(items, sym, i + 1)

\* items.findIndex(it => String(it.tile?.symbol || '').toUpperCase() === sym), 0 if none
RECURSIVE findIndex(_, _, _)
findIndex(items, sym, i) ==
  IF i > Len(items) THEN 0
  ELSE IF toUpperCase(items[i].tile.symbol) = sym THEN i
  ELSE findIndex(items, sym, i + 1)

\* height of the forced full-width top strip
topHeight(rect, area) ==
  IF RGt(rect.w, Zero) THEN MathMin(rect.h, RDiv(area, rect.w)) ELSE rect.h

\* "Optional forced top strip": the items left, the region left, the rect pushed
forceTop(items, rect, cfg) ==
  LET idx == IF cfg.forceTopFullWidthSymbol # ""
             THEN findIndex(items, cfg.forceTopFullWidthSymbol, 1) ELSE 0
  IN  IF idx = 0 THEN [items |-> items, rect |-> rect, pushed |-> <<>>]
      ELSE LET top == items[idx]
               topH == topHeight(rect, top.area)
           IN  [items |-> SubSeq(items, 1, idx - 1) \o SubSeq(items, idx + 1, Len(items)),
                rect |-> [x |-> rect.x, y |-> RAdd(rect.y, topH), w |-> rect.w,
                          h |-> MathMax(Zero, RSub(rect.h, topH))],
                pushed |-> <<[tile |-> top.tile, x |-> rect.x, y |-> rect.y,
                              w |-> rect.w, h |-> topH]>>]

stripHasPriority(arr, cfg) ==
  \E i \in 1..Len(arr) : toUpperCase(arr[i].tile.symbol) \in cfg.prioritySymbols

shouldConstrainAlways(strip, cfg, behavior) == TRUE

shouldConstrainStrip(strip, cfg, behavior) ==
  IF behavior.constrainAllStrips THEN TRUE ELSE stripHasPriority(strip, cfg)

baseHorizontalStrict(rect, behavior) ==
  IF behavior.preferColumnsWhenShort THEN RGt(rect.h, rect.w) ELSE RGt(rect.w, rect.h)

baseHorizontalRowIfWide(rect, behavior) == RGe(rect.w, rect.h)

\* base orientation of the next strip: TRUE = row, FALSE = column
baseHorizontal(rect, behavior) ==
  IF behavior.preferColumnsWhenShort THEN RGe(rect.h, rect.w) ELSE RGe(rect.w, rect.h)

flipCheckNone(strip, rect, cfg, behavior, horizontal) == horizontal

flipCheckTwice(strip, rect, cfg, behavior, horizontal) ==
  LET rowBelow == RLt(RDiv(sumArea(strip), rect.w), cfg.minStripHeightPx)
      columnBelow == RLt(RDiv(sumArea(strip), rect.h), cfg.minStripWidthPx)
  IN  IF shouldConstrainStrip(strip, cfg, behavior) /\ ~(rowBelow /\ columnBelow)
      THEN (IF horizontal THEN ~rowBelow ELSE columnBelow)
      ELSE horizontal

\* the orientation the strip is committed in, after the one flip check
flipCheck(strip, rect, cfg, behavior, horizontal) ==
  IF shouldConstrainStrip(strip, cfg, behavior)
  THEN IF horizontal
       THEN (IF RLt(RDiv(sumArea(strip), rect.w), cfg.minStripHeightPx) THEN FALSE ELSE horizontal)
       ELSE (IF RLt(RDiv(sumArea(strip), rect.h), cfg.minStripWidthPx) THEN TRUE ELSE horizontal)
  ELSE horizontal

\* computeRowTreemap.layoutRow: rows only, the last row takes containerH - y
layoutRow(r, isLastRow, y, w, containerH) ==
  LET sum == sumArea(r)
      rowH == IF isLastRow THEN MathMax(Zero, RSub(containerH, y)) ELSE RDiv(sum, w)
  IN  IF RLe(sum, Zero) \/ (isLastRow /\ (rowH = Zero \/ IsNaN(rowH)))
      THEN [y |-> y, pushed |-> <<>>]
      ELSE [y |-> RAdd(y, rowH), pushed |-> rowRects(r, 1, Zero, y, rowH, w)]

NoCfg ==
  [prioritySymbols |-> {}, forceTopFullWidthSymbol |-> "",
   baseContentHeightPx |-> Zero, baseContentWidthPx |-> Zero,
   minPriorityTextScale |-> Zero, minStripHeightPx |-> Zero, minStripWidthPx |-> Zero]

NoBehavior == [preferColumnsWhenShort |-> FALSE, constrainAllStrips |-> FALSE]

\* behaviour of computeCryptoTreemap, which hard-codes both policies
CryptoBehavior == [preferColumnsWhenShort |-> TRUE, constrainAllStrips |-> FALSE]

\* a call that has not started: fn(nodes, containerW, containerH, cfg, behavior | opts)
callLayout(fn, nodes, containerW, containerH, cfg, behavior, forceFirstStripHorizontal) ==
  [fn |-> fn, nodes |-> nodes, containerW |-> containerW, containerH |-> containerH,
   cfg |-> cfg, behavior |-> behavior, firstStrip |-> forceFirstStripHorizontal,
   items |-> <<>>, remaining |-> <<>>, rect |-> fullRect(containerW, containerH),
   rectsPx |-> <<>>, safeGuard |-> 0, log |-> <<>>, pc |-> "start", out |-> <<>>]

returnRects(st) ==
  [st EXCEPT !.pc = "done", !.out = normalize(st.rectsPx, st.containerW, st.containerH)]

\* from the entry of the function to the entry of its strip loop
layoutStart(st) ==
  IF st.nodes = <<>> \/ RLe(sumWeight(st.nodes), Zero) THEN [st EXCEPT !.pc = "done"]
  ELSE LET items == toItems(st.nodes, st.containerW, st.containerH)
       IN  IF st.fn \in {"constrained", "crypto"}
           THEN LET f == forceTop(items, st.rect, st.cfg)
                    st1 == [st EXCEPT !.items = items, !.remaining = f.items,
                                      !.rect = f.rect, !.rectsPx = f.pushed]
                IN  IF RLe(f.rect.w, Zero) \/ RLe(f.rect.h, Zero) \/ f.items = <<>>
                    THEN returnRects(st1)
                    ELSE [st1 EXCEPT !.pc = "loop"]
           ELSE [st EXCEPT !.items = items, !.remaining = items, !.pc = "loop"]

\* one iteration of the strip loop of computeConstrainedTreemap / computeCryptoTreemap
constrainedStep(st) ==
  IF st.remaining # <<>> /\ RGt(st.rect.w, Zero) /\ RGt(st.rect.h, Zero)
     /\ st.safeGuard < SAFE_GUARD_MAX
  THEN LET base == baseHorizontal(st.rect, st.behavior)
           side == MathMin(st.rect.w, st.rect.h)
           built == buildStrip(st.remaining, side)
           strip == IF built = <<>> THEN <<st.remaining[1]>> ELSE built
           horizontal == flipCheck(strip, st.rect, st.cfg, st.behavior, base)
           placed == layoutStrip(strip, st.rect, horizontal)
       IN  [st EXCEPT !.safeGuard = @ + 1,
                      !.rect = placed.rect,
                      !.rectsPx = @ \o placed.pushed,
                      !.remaining = SubSeq(@, Len(strip) + 1, Len(@)),
                      !.log = Append(@, [n |-> Len(strip), base |-> base,
                                         horizontal |-> horizontal, rect |-> st.rect,
                                         area |-> sumArea(strip)])]
  ELSE returnRects(st)

\* computeSquarifyTreemap: the greedy loop up to and including one layoutRow
squarifyStep(st) ==
  IF st.remaining # <<>>
  THEN LET side == MathMin(st.rect.w, st.rect.h)
           row == buildStrip(st.remaining, side)
           horizontal == st.firstStrip \/ RGe(st.rect.w, st.rect.h)
           placed == layoutStrip(row, st.rect, horizontal)
           laid == placed.pushed # <<>>
       IN  [st EXCEPT !.rect = placed.rect,
                      !.rectsPx = @ \o placed.pushed,
                      !.firstStrip = IF laid THEN FALSE ELSE @,
                      !.remaining = SubSeq(@, Len(row) + 1, Len(@)),
                      !.log = Append(@, [n |-> Len(row), base |-> horizontal,
                                         horizontal |-> horizontal, rect |-> st.rect,
                                         area |-> sumArea(row)])]
  ELSE returnRects(st)

\* computeRowTreemap: the for loop up to and including one layoutRow
rowStep(st) ==
  IF st.remaining # <<>>
  THEN LET row == buildStrip(st.remaining, st.containerW)
           isLastRow == Len(row) = Len(st.remaining)
           placed == layoutRow(row, isLastRow, st.rect.y, st.containerW, st.containerH)
       IN  [st EXCEPT !.rect = [@ EXCEPT !.y = placed.y,
                                         !.h = MathMax(Zero, RSub(st.containerH, placed.y))],
                      !.rectsPx = @ \o placed.pushed,
                      !.remaining = SubSeq(@, Len(row) + 1, Len(@)),
                      !.log = Append(@, [n |-> Len(row), base |-> TRUE,
                                         horizontal |-> TRUE, rect |-> st.rect,
                                         area |-> sumArea(row)])]
  ELSE returnRects(st)

layoutStep(st) ==
  IF st.pc = "start" THEN layoutStart(st)
  ELSE IF st.fn \in {"constrained", "crypto"} THEN constrainedStep(st)
  ELSE IF st.fn = "squarify" THEN squarifyStep(st)
  ELSE rowStep(st)

RECURSIVE runLayout(_)
runLayout(st) == IF st.pc = "done" THEN st ELSE runLayout(layoutStep(st))

computeSquarifyTreemap(nodes, containerW, containerH, forceFirstStripHorizontal) ==
  runLayout(callLayout("squarify", nodes, containerW, containerH, NoCfg, NoBehavior,
                       forceFirstStripHorizontal)).out

computeCryptoTreemap(nodes, containerW, containerH, cfg) ==
  runLayout(callLayout("crypto", nodes, containerW, containerH, cfg, CryptoBehavior, FALSE)).out

computeRowTreemap(nodes, containerW, containerH) ==
  runLayout(callLayout("row", nodes, containerW, containerH, NoCfg, NoBehavior, FALSE)).out

computeConstrainedTreemap(nodes, containerW, containerH, cfg, behavior) ==
  runLayout(callLayout("constrained", nodes, containerW, containerH, cfg, behavior, FALSE)).out

(* ---------------------------------------------------------------------- *)
(* JavaScript values of tile fields: a kind and, for numbers, the number  *)
(* ---------------------------------------------------------------------- *)
JNum(v) == [k |-> "num", v |-> v]

JNull == [k |-> "null", v |-> Zero]

JUndef == [k |-> "undef", v |-> Zero]

JStr == [k |-> "str", v |-> Zero]

\* x != null
notNullish(x) == x.k \notin {"null", "undef"}

\* Number.isNaN(x): no coercion, true for the number NaN only
NumberIsNaN(x) == x.k = "num" /\ IsNaN(x.v)

\* a ?? b
nullish(a, b) == IF notNullish(a) THEN a ELSE b

\* an absent number field of the per-container state (undefined)
Undefined == <<>>

(* ---------------------------------------------------------------------- *)
(* draw(): weights, metric, colour                                        *)
(* ---------------------------------------------------------------------- *)
STABLE_FRAMES_REQUIRED == 2

SIZE_EPS_PX == Frac(1, 2)

STABILIZE_TRIES_CAP == 12

defaultHeightAsMeasured == Num(40)

DEFAULT_BASE_CONTENT_HEIGHT_PX == Num(46)

DEFAULT_BASE_CONTENT_WIDTH_PX == Num(70)

DEFAULT_MIN_PRIORITY_TEXT_SCALE == Frac(78, 100)

capWeightRaw(t) == IF t.marketCap.k = "num" THEN t.marketCap.v ELSE Num(1)

\* typeof t.marketCap === 'number' && t.marketCap > 0 ? t.marketCap : 1
capWeight(t) ==
  IF t.marketCap.k = "num" /\ RGt(t.marketCap.v, Zero) THEN t.marketCap.v ELSE Num(1)

\* tiles.map(t => ({tile: t, weight: cap})).filter(n => typeof n.weight === 'number' && n.weight > 0)
RECURSIVE toNodes(_)
toNodes(tiles) ==
  IF tiles = <<>> THEN <<>>
  ELSE LET t == tiles[Len(tiles)]
           n == [tile |-> t, weight |-> capWeight(t)]
           front == toNodes(SubSeq(tiles, 1, Len(tiles) - 1))
       IN  IF RGt(n.weight, Zero) THEN Append(front, n) ELSE front

\* the metric shown for a tile: primary of the timeframe, else the fallback, else null
resolvePct(build_, tile, timeframe) ==
  LET primary ==
        IF build_ = "part_007"
        THEN (IF timeframe = "1D" THEN tile.changePct1D
              ELSE IF timeframe = "1W" THEN tile.changePct1W ELSE tile.changePct1M)
        ELSE (IF timeframe = "1D" THEN tile.changePct1D ELSE tile.changePct1W)
      fallback ==
        IF build_ = "part_007"
        THEN (IF timeframe = "1D" THEN nullish(tile.changePct1W, tile.changePct1M)
              ELSE IF timeframe = "1W" THEN nullish(tile.changePct1D, tile.changePct1M)
              ELSE nullish(tile.changePct1W, tile.changePct1D))
        ELSE (IF timeframe = "1D" THEN tile.changePct1W ELSE tile.changePct1D)
  IN  IF notNullish(primary) /\ ~NumberIsNaN(primary) THEN primary
      ELSE IF notNullish(fallback) /\ ~NumberIsNaN(fallback) THEN fallback
      ELSE JNull

pctColorClass(pct) ==
  IF ~notNullish(pct) \/ NumberIsNaN(pct) \/ pct.k # "num" THEN "pct-neutral"
  ELSE IF RGt(pct.v, Num(3)) THEN "pct-strong-pos"
  ELSE IF RGt(pct.v, Frac(1, 2)) THEN "pct-pos"
  ELSE IF RLt(pct.v, Num(-3)) THEN "pct-strong-neg"
  ELSE IF RLt(pct.v, Frac(-1, 2)) THEN "pct-neg"
  ELSE "pct-neutral"

\* options.mode as draw() reads it in each revision
modeOf(build_, options) ==
  IF options.mode = "crypto" THEN "crypto"
  ELSE IF build_ = "part_007" /\ options.mode = "sectors" THEN "sectors"
  ELSE "default"

\* measureContentSize / measureBaseContentSize: probe is the content box the
\* browser reports for the probe element, or "throws"; ok = FALSE stands for null
measureContentSize(probe) ==
  IF probe = <<>> THEN [ok |-> FALSE, w |-> Zero, h |-> Zero]
  ELSE [ok |-> TRUE, w |-> RAdd(probe[1], Num(8)), h |-> RAdd(probe[2], Num(6))]

\* x || dflt for a number x
orDefault(x, dflt) == IF x = Zero \/ IsNaN(x) THEN dflt ELSE x

NotMeasured == [ok |-> FALSE, w |-> Zero, h |-> Zero]

measureCacheAlways(cache, cacheKey, probe) ==
  LET measured == measureContentSize(probe)
  IN  [cache EXCEPT ![cacheKey] =
         [ok |-> TRUE,
          h |-> IF measured.ok THEN orDefault(measured.h, DEFAULT_BASE_CONTENT_HEIGHT_PX)
                ELSE DEFAULT_BASE_CONTENT_HEIGHT_PX,
          w |-> IF measured.ok THEN orDefault(measured.w, DEFAULT_BASE_CONTENT_WIDTH_PX)
                ELSE DEFAULT_BASE_CONTENT_WIDTH_PX]]

\* state._measureCache after getRenderConfig ran for the profile cacheKey
measureCacheAfter(cache, cacheKey, probe) ==
  IF cache[cacheKey].ok THEN cache
  ELSE LET measured == measureContentSize(probe)
       IN  [cache EXCEPT ![cacheKey] =
              [ok |-> TRUE,
               h |-> IF measured.ok THEN orDefault(measured.h, DEFAULT_BASE_CONTENT_HEIGHT_PX)
                     ELSE DEFAULT_BASE_CONTENT_HEIGHT_PX,
               w |-> IF measured.ok THEN orDefault(measured.w, DEFAULT_BASE_CONTENT_WIDTH_PX)
                     ELSE DEFAULT_BASE_CONTENT_WIDTH_PX]]

RECURSIVE upperSet(_)
upperSet(syms) ==
  IF syms = <<>> THEN {} ELSE {toUpperCase(syms[1])} \cup upperSet(SubSeq(syms, 2, Len(syms)))

\* the cfg object returned by getRenderConfig, given the baseline of the profile
getRenderConfig(base, options) ==
  LET minPriorityTextScale ==
        IF options.minPriorityTextScale # Undefined
           /\ RGt(options.minPriorityTextScale, Zero)
           /\ RLe(options.minPriorityTextScale, Num(1))
        THEN options.minPriorityTextScale
        ELSE DEFAULT_MIN_PRIORITY_TEXT_SCALE
  IN  [prioritySymbols |-> upperSet(options.prioritySymbols),
       forceTopFullWidthSymbol |-> toUpperCase(options.forceTopFullWidthSymbol),
       baseContentHeightPx |-> base.h,
       baseContentWidthPx |-> base.w,
       minPriorityTextScale |-> minPriorityTextScale,
       minStripHeightPx |-> RMul(base.h, minPriorityTextScale),
       minStripWidthPx |-> RMul(base.w, minPriorityTextScale)]

(* ---------------------------------------------------------------------- *)
(* One container: HEATMAP_STATE entry, animation-frame queue, DOM content *)
(* ---------------------------------------------------------------------- *)
VARIABLES
  build,      \* revision of heatmap.js in use: "heatmap", "part_007", "part_006"
  state,      \* HEATMAP_STATE.get(container); exists = FALSE before the first call
  rafQueue,   \* animation-frame callbacks of this container the browser still holds
  listeners,  \* registrations per event source
  container,  \* child elements of the container, in document order
  lastCall,   \* history: arguments of the most recent renderHeatmap call, and whether
              \* it replaced other inputs that were still waiting for their callback
  lastOp,     \* history: the most recent operation, the callbacks queued before it
              \* and, for a tick, the box it read and what it did
  hist,       \* history: the first reads of a box of at least 2 px and their outcome
  lay,        \* a separate run of one layout function, strip by strip
  env,        \* the browser: which of the optional APIs the page has
  svc         \* the data services behind the S&P view: stocksService,
              \* companyService and the refresh of sp500Heatmap

vars == <<build, state, rafQueue, listeners, container, lastCall, lastOp, hist, lay, env, svc>>

NoOptions ==
  [mode |-> "", prioritySymbols |-> <<>>, forceTopFullWidthSymbol |-> "",
   minPriorityTextScale |-> Undefined]

NoState ==
  [exists |-> FALSE, tiles |-> <<>>, timeframe |-> "", options |-> NoOptions,
   _installed |-> FALSE, rafId |-> 0, _lastW |-> Undefined, _lastH |-> Undefined,
   _stableFrames |-> 0, _stabilizeTries |-> 0,
   _measureCache |-> [crypto |-> NotMeasured, text |-> NotMeasured]]

ListenerKinds ==
  {"ResizeObserver", "vv.resize", "vv.scroll", "window.resize", "orientationchange"}

\* the optional browser APIs renderHeatmap tests for before it registers
Apis == {"ResizeObserver", "visualViewport"}

\* typeof ResizeObserver !== 'undefined' / window.visualViewport, per event source
available(env_, kind) ==
  IF kind = "ResizeObserver" THEN "ResizeObserver" \in env_
  ELSE IF kind \in {"vv.resize", "vv.scroll"} THEN "visualViewport" \in env_
  ELSE TRUE

\* the install block without its `if (!state._installed)`
installListenersAlways(s, env_, l) ==
  [kind \in ListenerKinds |-> IF available(env_, kind) THEN l[kind] + 1 ELSE l[kind]]

\* the install block of renderHeatmap: the registrations after it, s being the
\* state entry the call found
installListeners(s, env_, l) ==
  IF s._installed THEN l
  ELSE [kind \in ListenerKinds |-> IF available(env_, kind) THEN l[kind] + 1 ELSE l[kind]]

\* renderHeatmap storing its inputs only when it creates the state entry
storeInputsOnce(s, tiles, timeframe, options) ==
  IF s.exists THEN s
  ELSE [s EXCEPT !.exists = TRUE, !.tiles = tiles, !.timeframe = timeframe,
                 !.options = options]

\* renderHeatmap: HEATMAP_STATE.get(container) || {} with the inputs stored in it
storeInputs(s, tiles, timeframe, options) ==
  [s EXCEPT !.exists = TRUE, !.tiles = tiles, !.timeframe = timeframe, !.options = options]

\* scheduleDraw without its `if (state.rafId) return`
scheduleDrawTwice(s, q) ==
  IF ~s.exists THEN [state |-> s, rafQueue |-> q]
  ELSE IF s.rafId # 0 THEN [state |-> s, rafQueue |-> q]
  ELSE [state |-> [s EXCEPT !.rafId = 1], rafQueue |-> q + 2]

scheduleDrawUnguarded(s, q) ==
  IF ~s.exists THEN [state |-> s, rafQueue |-> q]
  ELSE [state |-> [s EXCEPT !.rafId = 1], rafQueue |-> q + 1]

\* scheduleDraw(container): the state entry and the frame queue afterwards
scheduleDraw(s, q) ==
  IF ~s.exists THEN [state |-> s, rafQueue |-> q]
  ELSE IF s.rafId # 0 THEN [state |-> s, rafQueue |-> q]
  ELSE [state |-> [s EXCEPT !.rafId = 1], rafQueue |-> q + 1]

\* draw() without a size guard, as in the first revision
noSizeGuard(pxW, pxH) == FALSE

\* the size guard of draw(): !pxW || !pxH || pxW < 2 || pxH < 2
tooSmall(pxW, pxH) ==
  \/ pxW = Zero \/ IsNaN(pxW)
  \/ pxH = Zero \/ IsNaN(pxH)
  \/ RLt(pxW, Num(2))
  \/ RLt(pxH, Num(2))

\* `changed` of draw()
sizeChanged(s, pxW, pxH) ==
  \/ s._lastW = Undefined
  \/ s._lastH = Undefined
  \/ RGt(MathAbs(RSub(pxW, s._lastW)), SIZE_EPS_PX)
  \/ RGt(MathAbs(RSub(pxH, s._lastH)), SIZE_EPS_PX)

\* the gate counting a changed read as the first stable one
gateCountsFirst(s, pxW, pxH) ==
  IF sizeChanged(s, pxW, pxH)
  THEN LET s1 == [s EXCEPT !._lastW = pxW, !._lastH = pxH, !._stableFrames = 1,
                           !._stabilizeTries = @ + 1]
       IN  [state |-> s1, wait |-> s1._stabilizeTries < STABILIZE_TRIES_CAP]
  ELSE LET s1 == [s EXCEPT !._stableFrames = @ + 1, !._stabilizeTries = 0]
       IN  [state |-> s1, wait |-> s1._stableFrames < STABLE_FRAMES_REQUIRED]

gateDrawsOnChange(s, pxW, pxH) ==
  IF sizeChanged(s, pxW, pxH)
  THEN LET s1 == [s EXCEPT !._lastW = pxW, !._lastH = pxH, !._stableFrames = 0,
                           !._stabilizeTries = @ + 1]
       IN  [state |-> s1, wait |-> FALSE]
  ELSE LET s1 == [s EXCEPT !._stableFrames = @ + 1, !._stabilizeTries = 0]
       IN  [state |-> s1, wait |-> s1._stableFrames < STABLE_FRAMES_REQUIRED]

gateKeepsTries(s, pxW, pxH) ==
  IF sizeChanged(s, pxW, pxH)
  THEN LET s1 == [s EXCEPT !._lastW = pxW, !._lastH = pxH, !._stableFrames = 0,
                           !._stabilizeTries = @ + 1]
       IN  [state |-> s1, wait |-> s1._stabilizeTries < STABILIZE_TRIES_CAP]
  ELSE LET s1 == [s EXCEPT !._stableFrames = @ + 1]
       IN  [state |-> s1, wait |-> s1._stableFrames < STABLE_FRAMES_REQUIRED]

gateResetsAtCap(s, pxW, pxH) ==
  IF sizeChanged(s, pxW, pxH)
  THEN LET s1 == [s EXCEPT !._lastW = pxW, !._lastH = pxH, !._stableFrames = 0,
                           !._stabilizeTries = @ + 1]
       IN  IF s1._stabilizeTries < STABILIZE_TRIES_CAP
           THEN [state |-> s1, wait |-> TRUE]
           ELSE [state |-> [s1 EXCEPT !._stabilizeTries = 0], wait |-> FALSE]
  ELSE LET s1 == [s EXCEPT !._stableFrames = @ + 1, !._stabilizeTries = 0]
       IN  [state |-> s1, wait |-> s1._stableFrames < STABLE_FRAMES_REQUIRED]

gateCapExceeded(s, pxW, pxH) ==
  IF sizeChanged(s, pxW, pxH)
  THEN LET s1 == [s EXCEPT !._lastW = pxW, !._lastH = pxH, !._stableFrames = 0,
                           !._stabilizeTries = @ + 1]
       IN  [state |-> s1, wait |-> s1._stabilizeTries <= STABILIZE_TRIES_CAP]
  ELSE LET s1 == [s EXCEPT !._stableFrames = @ + 1, !._stabilizeTries = 0]
       IN  [state |-> s1, wait |-> s1._stableFrames < STABLE_FRAMES_REQUIRED]

\* the stability gate of draw(): counters after this read and whether to wait
gate(s, pxW, pxH) ==
  IF sizeChanged(s, pxW, pxH)
  THEN LET s1 == [s EXCEPT !._lastW = pxW, !._lastH = pxH, !._stableFrames = 0,
                           !._stabilizeTries = @ + 1]
       IN  [state |-> s1, wait |-> s1._stabilizeTries < STABILIZE_TRIES_CAP]
  ELSE LET s1 == [s EXCEPT !._stableFrames = @ + 1, !._stabilizeTries = 0]
       IN  [state |-> s1, wait |-> s1._stableFrames < STABLE_FRAMES_REQUIRED]

\* profile whose baseline draw() asks for (none in the default mode of part_007)
profileOf(build_, mode) ==
  IF build_ = "part_007"
  THEN (IF mode = "crypto" THEN "crypto" ELSE IF mode = "sectors" THEN "text" ELSE "")
  ELSE "crypto"

\* the rects draw() asks for: layout function by revision and mode
layoutFor(build_, mode, nodes, pxW, pxH, cfg) ==
  runLayout(
    IF build_ = "part_007"
    THEN (IF mode = "crypto"
          THEN callLayout("constrained", nodes, pxW, pxH, cfg,
                 [preferColumnsWhenShort |-> TRUE, constrainAllStrips |-> FALSE], FALSE)
          ELSE IF mode = "sectors"
          THEN callLayout("constrained", nodes, pxW, pxH, cfg,
                 [preferColumnsWhenShort |-> TRUE, constrainAllStrips |-> TRUE], FALSE)
          ELSE callLayout("row", nodes, pxW, pxH, NoCfg, NoBehavior, FALSE))
    ELSE (IF mode = "crypto"
          THEN callLayout("crypto", nodes, pxW, pxH, cfg, CryptoBehavior, FALSE)
          ELSE callLayout("squarify", nodes, pxW, pxH, NoCfg, NoBehavior, TRUE))).out

(* ---------------------------------------------------------------------- *)
(* Inputs                                                                 *)
(* ---------------------------------------------------------------------- *)
MaxStableFrames == 3

MaxStabilizeTries == 13

MaxHist == 4

Tile(symbol, marketCap, d1, w1, m1, logoUrl) ==
  [symbol |-> symbol, marketCap |-> marketCap, changePct1D |-> d1, changePct1W |-> w1,
   changePct1M |-> m1, logoUrl |-> logoUrl]

TilesA ==
  <<Tile("eth", JUndef, JNum(NaN), JNum(Num(-1)), JUndef, ""),
    Tile("btc", JNum(Num(6)), JNum(Num(4)), JNull, JUndef, "btc.png"),
    Tile("SOL", JNum(Num(2)), JNull, JNull, JNum(Num(1)), "sol.png"),
    Tile("ada", JNull, JNum(Num(-5)), JNum(Num(2)), JNull, "")>>

\* sector tiles whose marketCap is a number, NaN, negative, a string and zero
TilesB ==
  <<Tile("XLK", JNum(Num(3)), JNum(Frac(1, 4)), JNum(Num(5)), JNum(Num(-4)), ""),
    Tile("XLF", JNum(NaN), JNum(Num(-2)), JNum(NaN), JNull, ""),
    Tile("XLE", JNum(Num(-2)), JNull, JNum(Num(2)), JUndef, ""),
    Tile("XLU", JStr, JNum(NaN), JNull, JNum(Num(7)), ""),
    Tile("XLV", JNum(Zero), JNull, JUndef, JNull, "")>>

CryptoOptions ==
  [mode |-> "crypto", prioritySymbols |-> <<"btc", "ETH">>,
   forceTopFullWidthSymbol |-> "BTC", minPriorityTextScale |-> Num(1)]

SectorOptions == [NoOptions EXCEPT !.mode = "sectors"]

Requests ==
  { [tiles |-> TilesA, timeframe |-> "1D", options |-> NoOptions],
    [tiles |-> TilesA, timeframe |-> "1W", options |-> CryptoOptions],
    [tiles |-> TilesB, timeframe |-> "1M", options |-> SectorOptions],
    [tiles |-> <<>>, timeframe |-> "1D", options |-> NoOptions] }

\* the data services before the S&P view is opened
IdleSvc == [fn |-> "none"]

NoCall == [tiles |-> <<>>, timeframe |-> "", options |-> NoOptions, replaced |-> FALSE]

Sizes ==
  { <<Frac(3, 2), Zero>>, <<Num(100), Num(98)>>,
    <<Num(140), Num(140)>>, <<Frac(281, 2), Num(140)>> }

Probes == { <<>>, <<Num(54), Num(34)>> }

Builds == {"heatmap", "part_007", "part_006"}

NoSize == <<Zero, Zero>>

IdleLay == callLayout("row", <<>>, Zero, Zero, NoCfg, NoBehavior, FALSE)

\* the boxes of Sizes that pass the size guard
VisibleSizes == { size \in Sizes : ~tooSmall(size[1], size[2]) }

DefaultBase == [ok |-> TRUE, h |-> DEFAULT_BASE_CONTENT_HEIGHT_PX, w |-> DEFAULT_BASE_CONTENT_WIDTH_PX]

\* the baselines a measured profile can have: the defaults or the probe's box
Baselines ==
  { measureCacheAfter(NoState._measureCache, "crypto", probe).crypto : probe \in Probes }

\* A scale is the number c + 3 * sqrt(root), held as the pair of fractions c and
\* root: the heuristic 0.42 + Math.sqrt(areaNorm) * 3 has root = areaNorm, every
\* other scale has root = 0.  Its order against a fraction q is decided
\* exactly: sqrt(root) < t  iff  t > 0 and root / t < t.
heuristicScale(areaNorm) == [c |-> Frac(42, 100), root |-> areaNorm]

plainScale(q) == [c |-> q, root |-> Zero]

\* scale < q
scaleLt(scale, q) ==
  IF scale.root = Zero THEN RLt(scale.c, q)
  ELSE LET t == RDiv(RSub(q, scale.c), Num(3))
       IN  RGt(t, Zero) /\ RLt(RDiv(scale.root, t), t)

\* scale > q
scaleGt(scale, q) ==
  IF scale.root = Zero THEN RGt(scale.c, q)
  ELSE LET t == RDiv(RSub(q, scale.c), Num(3))
       IN  RLe(t, Zero) \/ RGt(RDiv(scale.root, t), t)

\* scale >= q
scaleGe(scale, q) == ~scaleLt(scale, q)

\* Math.min(tileHeightPx / cfg.baseContentHeightPx, tileWidthPx / cfg.baseContentWidthPx)
fitScale(cfg, tileWidthPx, tileHeightPx) ==
  MathMin(RDiv(tileHeightPx, cfg.baseContentHeightPx),
          RDiv(tileWidthPx, cfg.baseContentWidthPx))

\* whether draw() clamps the scale by the content fit: always in heatmap.js,
\* in the later revision only in the crypto and sectors modes
clampsByFit(build_, mode) == build_ # "part_007" \/ mode \in {"crypto", "sectors"}

tileScaleNoFloor(build_, mode, cfg, areaNorm, tileWidthPx, tileHeightPx) ==
  LET heuristic == heuristicScale(areaNorm)
      fitted == IF clampsByFit(build_, mode)
                THEN (LET fit == fitScale(cfg, tileWidthPx, tileHeightPx)
                      IN  IF IsFinite(fit) /\ scaleGt(heuristic, fit)
                          THEN plainScale(fit) ELSE heuristic)
                ELSE heuristic
  IN  IF scaleGt(fitted, Num(3)) THEN plainScale(Num(3)) ELSE fitted

\* the value written to --tile-scale
tileScale(build_, mode, cfg, areaNorm, tileWidthPx, tileHeightPx) ==
  LET heuristic == heuristicScale(areaNorm)
      fitted == IF clampsByFit(build_, mode)
                THEN (LET fit == fitScale(cfg, tileWidthPx, tileHeightPx)
                      IN  IF IsFinite(fit) /\ scaleGt(heuristic, fit)
                          THEN plainScale(fit) ELSE heuristic)
                ELSE heuristic
  IN  IF scaleLt(fitted, Frac(32, 100)) THEN plainScale(Frac(32, 100))
      ELSE IF scaleGt(fitted, Num(3)) THEN plainScale(Num(3))
      ELSE fitted

\* cfg.prioritySymbols.has(sym), read in the crypto mode only
isPriorityExact(cfg, tile) == tile.symbol \in cfg.prioritySymbols

\* cfg.prioritySymbols.has(String(tile.symbol || '').toUpperCase())
isPriority(cfg, tile) == toUpperCase(tile.symbol) \in cfg.prioritySymbols

showText(mode, cfg, tile, scale, tileWidthPx, tileHeightPx) ==
  IF mode = "crypto"
  THEN IF isPriority(cfg, tile) THEN TRUE
       ELSE /\ scaleGe(scale, Frac(105, 100))
            /\ RGe(tileHeightPx, RMul(cfg.baseContentHeightPx, Frac(95, 100)))
            /\ RGe(tileWidthPx, RMul(cfg.baseContentWidthPx, Frac(95, 100)))
  ELSE IF mode = "sectors" THEN TRUE
  ELSE scaleGe(scale, Frac(6, 10))

showLogo(mode, cfg, tile, scale, tileWidthPx, tileHeightPx) ==
  IF tile.logoUrl = "" \/ mode = "sectors" THEN FALSE
  ELSE IF mode = "crypto"
  THEN IF isPriority(cfg, tile)
       THEN /\ RGe(tileHeightPx, RMul(cfg.baseContentHeightPx, Frac(9, 10)))
            /\ RGe(tileWidthPx, Num(22))
            /\ scaleGe(scale, cfg.minPriorityTextScale)
       ELSE RGe(tileHeightPx, Num(18)) /\ RGe(tileWidthPx, Num(18))
  ELSE /\ RGe(tileHeightPx, Num(18)) /\ RGe(tileWidthPx, Num(18))
       /\ scaleGe(scale, Frac(5, 10))

\* the body of rects.forEach(...) for one rect
tileElement(build_, mode, cfg, rect, timeframe, pxW, pxH) ==
  LET pct == resolvePct(build_, rect.tile, timeframe)
      tileWidthPx == RMul(rect.w, pxW)
      tileHeightPx == RMul(rect.h, pxH)
      scale == tileScale(build_, mode, cfg, RMul(rect.w, rect.h), tileWidthPx, tileHeightPx)
  IN  [tile |-> rect.tile, x |-> rect.x, y |-> rect.y, w |-> rect.w, h |-> rect.h,
       pct |-> pct, colorClass |-> pctColorClass(pct),
       tileWidthPx |-> tileWidthPx, tileHeightPx |-> tileHeightPx, scale |-> scale,
       showText |-> showText(mode, cfg, rect.tile, scale, tileWidthPx, tileHeightPx),
       showLogo |-> showLogo(mode, cfg, rect.tile, scale, tileWidthPx, tileHeightPx)]

\* rects.forEach(...): one element per rect
tileElements(build_, mode, cfg, rects, timeframe, pxW, pxH) ==
  [i \in 1..Len(rects) |-> tileElement(build_, mode, cfg, rects[i], timeframe, pxW, pxH)]

\* what draw() puts into the container for the stored inputs r
paintFor(build_, r, base, pxW, pxH) ==
  LET mode == modeOf(build_, r.options)
      cfg == IF profileOf(build_, mode) = "" THEN NoCfg ELSE getRenderConfig(base, r.options)
  IN  tileElements(build_, mode, cfg,
                   layoutFor(build_, mode, toNodes(r.tiles), pxW, pxH, cfg),
                   r.timeframe, pxW, pxH)

\* paintFor over Requests, Baselines and the visible Sizes, each entry worked out once
PaintTable ==
  [b \in Builds \ {"part_006"}, r \in Requests, base \in Baselines, size \in VisibleSizes |->
     paintFor(b, r, base, size[1], size[2])]

\* paintFor, read from the table
paintOf(build_, r, base, size) == PaintTable[build_, r, base, size]

\* the element of a one-element set: { e(v) : v \in {x} } works x out once
the(S) == CHOOSE x \in S : TRUE

\* draw() from `container.innerHTML = ''` on, s being the state after the gate
repaint(build_, s, q, pxW, pxH, probe) ==
  IF s.tiles = <<>>
  THEN [state |-> s, rafQueue |-> q, container |-> <<>>, outcome |-> "empty"]
  ELSE LET nodes == toNodes(s.tiles)
           mode == modeOf(build_, s.options)
           profile == profileOf(build_, mode)
           cache == IF profile = "" THEN s._measureCache
                    ELSE measureCacheAfter(s._measureCache, profile, probe)
           base == IF profile = "" THEN DefaultBase ELSE cache[profile]
           stored == [tiles |-> s.tiles, timeframe |-> s.timeframe, options |-> s.options]
       IN  IF nodes = <<>>
           THEN [state |-> s, rafQueue |-> q, container |-> <<>>, outcome |-> "empty"]
           ELSE [state |-> [s EXCEPT !._measureCache = cache],
                 rafQueue |-> q,
                 container |-> paintOf(build_, stored, base, <<pxW, pxH>>),
                 outcome |-> "drawn"]

\* draw() after the stability gate gave g: reschedule and return, or repaint
gated(build_, g, q, c, pxW, pxH, probe) ==
  IF g.wait
  THEN the({ [state |-> sd.state, rafQueue |-> sd.rafQueue, container |-> c,
              outcome |-> "wait"] : sd \in {scheduleDraw(g.state, q)} })
  ELSE the({ repaint(build_, s1, q, pxW, pxH, probe) : s1 \in {g.state} })

\* draw(container) with the box and the probe measurement the browser reports
drawHiddenResets(build_, s, q, c, pxW, pxH, probe) ==
  IF ~s.exists THEN [state |-> s, rafQueue |-> q, container |-> c, outcome |-> "nostate"]
  ELSE IF tooSmall(pxW, pxH)
  THEN [state |-> [s EXCEPT !._stableFrames = 0], rafQueue |-> q, container |-> c,
        outcome |-> "hidden"]
  ELSE the({ gated(build_, g, q, c, pxW, pxH, probe) : g \in {gate(s, pxW, pxH)} })

draw(build_, s, q, c, pxW, pxH, probe) ==
  IF ~s.exists THEN [state |-> s, rafQueue |-> q, container |-> c, outcome |-> "nostate"]
  ELSE IF tooSmall(pxW, pxH)
  THEN [state |-> s, rafQueue |-> q, container |-> c, outcome |-> "hidden"]
  ELSE the({ gated(build_, g, q, c, pxW, pxH, probe) : g \in {gate(s, pxW, pxH)} })

\* renderHeatmap of the first revision: paints at once, one column per valid tile
RECURSIVE legacyColumns(_, _, _, _, _)
legacyColumns(sorted, i, xCursor, totalCap, timeframe) ==
  IF i > Len(sorted) THEN <<>>
  ELSE LET tile == sorted[i].tile
           frac == RDiv(sorted[i].weight, totalCap)
           pct == resolvePct("part_006", tile, timeframe)
       IN  IF RLe(frac, Zero) THEN legacyColumns(sorted, i + 1, xCursor, totalCap, timeframe)
           ELSE <<[tile |-> tile, x |-> xCursor, y |-> Zero, w |-> frac, h |-> Num(1),
                   pct |-> pct, colorClass |-> pctColorClass(pct)]>>
                \o legacyColumns(sorted, i + 1, RAdd(xCursor, frac), totalCap, timeframe)

\* tiles.filter(t => typeof t.marketCap === 'number' && t.marketCap > 0)
RECURSIVE validCaps(_)
validCaps(tiles) ==
  IF tiles = <<>> THEN <<>>
  ELSE LET t == tiles[Len(tiles)]
           front == validCaps(SubSeq(tiles, 1, Len(tiles) - 1))
       IN  IF t.marketCap.k = "num" /\ RGt(t.marketCap.v, Zero)
           THEN Append(front, [tile |-> t, weight |-> t.marketCap.v]) ELSE front

renderHeatmapLegacy(tiles, timeframe) ==
  LET valid == validCaps(tiles)
      sorted == sortDesc(valid)
      totalCap == sumWeight(sorted)
  IN  IF valid = <<>> \/ totalCap = Zero \/ IsNaN(totalCap) THEN <<>>
      ELSE legacyColumns(sorted, 1, Zero, totalCap, timeframe)

(* ---------------------------------------------------------------------- *)
(* Operations on the container                                            *)
(* ---------------------------------------------------------------------- *)
Quiet == state._stableFrames < MaxStableFrames /\ state._stabilizeTries < MaxStabilizeTries

renderHeatmap(tiles, timeframe, options) ==
  /\ Quiet
  /\ lastCall' = [tiles |-> tiles, timeframe |-> timeframe, options |-> options,
                  replaced |-> /\ rafQueue > 0
                               /\ <<tiles, timeframe, options>> #
                                    <<state.tiles, state.timeframe, state.options>>]
  /\ lastOp' = [op |-> "renderHeatmap", size |-> NoSize, outcome |-> "", queued |-> rafQueue,
               probeLeft |-> FALSE]
  /\ IF build = "part_006"
     THEN /\ container' = renderHeatmapLegacy(tiles, timeframe)
          /\ UNCHANGED <<state, rafQueue, listeners>>
     ELSE LET s1 == [storeInputs(state, tiles, timeframe, options) EXCEPT !._installed = TRUE]
              sd == scheduleDraw(s1, rafQueue)
          IN  /\ state' = sd.state
              /\ rafQueue' = sd.rafQueue
              /\ listeners' = installListeners(state, env, listeners)
              /\ UNCHANGED container
  /\ UNCHANGED <<build, hist, lay, env, svc>>

\* a ResizeObserver, visualViewport or window callback installed by renderHeatmap
\* fires: every one of them is () => scheduleDraw(container)
listenerEvent ==
  /\ Quiet
  /\ { kind \in ListenerKinds : listeners[kind] > 0 } # {}
  /\ LET sd == scheduleDraw(state, rafQueue)
     IN  /\ state' = sd.state
         /\ rafQueue' = sd.rafQueue
  /\ lastOp' = [op |-> "listener", size |-> NoSize, outcome |-> "", queued |-> rafQueue,
               probeLeft |-> FALSE]
  /\ UNCHANGED <<build, listeners, container, lastCall, hist, lay, env, svc>>

\* whether draw() would run the probe measurement for the stored options
needsProbe ==
  LET profile == profileOf(build, modeOf(build, state.options))
  IN  profile # "" /\ ~state._measureCache[profile].ok

\* the requestAnimationFrame callback: state.rafId = null; draw(container)
\* whether a draw leaves its measurement probe in the container: the try block
\* of the measurement can throw before container.appendChild(probe) or between
\* it and probe.remove(), and the catch does not remove the probe
probeLeftBy(measuredNow, probe) ==
  IF measuredNow /\ ~measureContentSize(probe).ok THEN BOOLEAN ELSE {FALSE}

tick(size, probe) ==
  /\ rafQueue > 0
  /\ \E d \in {draw(build, [state EXCEPT !.rafId = 0], rafQueue - 1, container,
                       size[1], size[2], probe)} :
         /\ state' = d.state
         /\ rafQueue' = d.rafQueue
         /\ container' = d.container
         /\ \E left \in probeLeftBy(d.state._measureCache # state._measureCache, probe) :
              lastOp' = [op |-> "tick", size |-> size, outcome |-> d.outcome,
                         queued |-> rafQueue, probeLeft |-> left]
         /\ hist' = IF ~hist.on \/ d.outcome = "hidden" THEN hist
                    ELSE IF Len(hist.reads) >= MaxHist THEN [on |-> FALSE, reads |-> <<>>]
                    ELSE [hist EXCEPT !.reads = Append(@, [size |-> size, outcome |-> d.outcome])]
  /\ UNCHANGED <<build, listeners, lastCall, lay, env, svc>>

Init ==
  /\ build \in Builds
  /\ state = NoState
  /\ rafQueue = 0
  /\ listeners = [k \in ListenerKinds |-> 0]
  /\ container = <<>>
  /\ lastCall = NoCall
  /\ lastOp = [op |-> "none", size |-> NoSize, outcome |-> "", queued |-> 0,
              probeLeft |-> FALSE]
  /\ hist = [on |-> TRUE, reads |-> <<>>]
  /\ lay = IdleLay
  /\ env = Apis
  /\ svc = IdleSvc

Next ==
  \/ \E r \in Requests : renderHeatmap(r.tiles, r.timeframe, r.options)
  \/ listenerEvent
  \/ \E size \in Sizes : \E probe \in (IF needsProbe THEN Probes ELSE {<<>>}) : tick(size, probe)

Spec == Init /\ [][Next]_vars

(* ---------------------------------------------------------------------- *)
(* A surface that is at least 2 px wide and high at every read, and whose *)
(* queued animation-frame callbacks the browser always runs               *)
(* ---------------------------------------------------------------------- *)
LiveSizes == { <<Num(100), Num(98)>>, <<Num(140), Num(140)>> }

LiveRequests == { r \in Requests : r.options = NoOptions }

LiveTick ==
  \E size \in LiveSizes : \E probe \in (IF needsProbe THEN Probes ELSE {<<>>}) :
    tick(size, probe)

LiveInit == Init /\ build # "part_006"

LiveNext ==
  \/ \E r \in LiveRequests : renderHeatmap(r.tiles, r.timeframe, r.options)
  \/ listenerEvent
  \/ LiveTick

LiveSpec == LiveInit /\ [][LiveNext]_vars /\ WF_vars(LiveTick)

(* ---------------------------------------------------------------------- *)
(* The same surface in every browser: with and without ResizeObserver and *)
(* window.visualViewport                                                  *)
(* ---------------------------------------------------------------------- *)
InstallInit ==
  /\ build \in Builds
  /\ state = NoState
  /\ rafQueue = 0
  /\ listeners = [k \in ListenerKinds |-> 0]
  /\ container = <<>>
  /\ lastCall = NoCall
  /\ lastOp = [op |-> "none", size |-> NoSize, outcome |-> "", queued |-> 0,
              probeLeft |-> FALSE]
  /\ hist = [on |-> TRUE, reads |-> <<>>]
  /\ lay = IdleLay
  /\ env \in SUBSET Apis
  /\ svc = IdleSvc

InstallSpec == InstallInit /\ [][LiveNext]_vars

(* ---------------------------------------------------------------------- *)
(* The layout functions on their own: lay runs one call, strip by strip   *)
(* ---------------------------------------------------------------------- *)
MaxTiles == 4

Weights == {1, 2, 5}

symbolAt == <<"btc", "ETH", "sol", "XRP", "doge", "ADA", "LTC", "DOT">>

nodesOf(ws) ==
  [i \in 1..Len(ws) |->
     [tile |-> Tile(symbolAt[i], JNum(Num(ws[i])), JNull, JNull, JNull, ""),
      weight |-> Num(ws[i])]]

NodeLists == { nodesOf(ws) : ws \in UNION { [1..n -> Weights] : n \in 0..MaxTiles } }

\* more equal tiles than the strip loop has iterations, in a box so tall that
\* every strip holds a single tile
LongNodes ==
  [i \in 1..(SAFE_GUARD_MAX + 1) |->
     [tile |-> Tile(ToString(i), JNum(Num(1)), JNull, JNull, JNull, ""), weight |-> Num(1)]]

LongBox == <<Num(4), Num(700)>>

\* the three tiles of weights 60, 25 and 15 in a box of 300 x 100
ExampleNodes ==
  << [tile |-> Tile("A", JNum(Num(60)), JNull, JNull, JNull, ""), weight |-> Num(60)],
     [tile |-> Tile("B", JNum(Num(25)), JNull, JNull, JNull, ""), weight |-> Num(25)],
     [tile |-> Tile("C", JNum(Num(15)), JNull, JNull, JNull, ""), weight |-> Num(15)] >>

ExampleBox == <<Num(300), Num(100)>>

Boxes == { <<Num(300), Num(100)>>, <<Num(100), Num(98)>>, <<Num(140), Num(140)>>,
           <<Num(60), Num(200)>> }

\* containers without width or without height
DegenerateBoxes == { <<Zero, Num(100)>>, <<Num(300), Zero>> }

Cfgs == { getRenderConfig(DefaultBase, o) : o \in {NoOptions, CryptoOptions} }

Behaviors == [preferColumnsWhenShort : BOOLEAN, constrainAllStrips : BOOLEAN]

LayoutEnter ==
  /\ lay.pc = "start"
  /\ lay' = layoutStart(lay)
  /\ UNCHANGED <<build, state, rafQueue, listeners, container, lastCall, lastOp, hist, env, svc>>

LayoutStrip ==
  /\ lay.pc = "loop"
  /\ \E next \in {layoutStep(lay)} :
       /\ next.pc = "loop"
       /\ lay' = next
  /\ UNCHANGED <<build, state, rafQueue, listeners, container, lastCall, lastOp, hist, env, svc>>

LayoutReturn ==
  /\ lay.pc = "loop"
  /\ \E next \in {layoutStep(lay)} :
       /\ next.pc = "done"
       /\ lay' = next
  /\ UNCHANGED <<build, state, rafQueue, listeners, container, lastCall, lastOp, hist, env, svc>>

LayoutInit ==
  /\ build = "part_007"
  /\ state = NoState
  /\ rafQueue = 0
  /\ listeners = [k \in ListenerKinds |-> 0]
  /\ container = <<>>
  /\ lastCall = NoCall
  /\ lastOp = [op |-> "none", size |-> NoSize, outcome |-> "", queued |-> 0,
              probeLeft |-> FALSE]
  /\ hist = [on |-> TRUE, reads |-> <<>>]
  /\ \/ lay \in { callLayout("squarify", n, b[1], b[2], NoCfg, NoBehavior, f) :
                    n \in NodeLists, b \in Boxes \cup DegenerateBoxes, f \in BOOLEAN }
     \/ lay \in { callLayout("row", n, b[1], b[2], NoCfg, NoBehavior, FALSE) :
                    n \in NodeLists, b \in Boxes \cup DegenerateBoxes }
     \/ lay \in { callLayout("crypto", n, b[1], b[2], c, CryptoBehavior, FALSE) :
                    n \in NodeLists, b \in Boxes \cup DegenerateBoxes, c \in Cfgs }
     \/ lay \in { callLayout("constrained", n, b[1], b[2], c, bh, FALSE) :
                    n \in NodeLists, b \in Boxes \cup DegenerateBoxes, c \in Cfgs,
                    bh \in Behaviors }
     \/ lay \in { callLayout(fn, LongNodes, LongBox[1], LongBox[2],
                             getRenderConfig(DefaultBase, NoOptions), CryptoBehavior, FALSE) :
                    fn \in {"crypto", "constrained"} }
     \/ lay \in { callLayout("squarify", ExampleNodes, ExampleBox[1], ExampleBox[2],
                             NoCfg, NoBehavior, f) : f \in BOOLEAN }
     \/ lay = callLayout("row", ExampleNodes, ExampleBox[1], ExampleBox[2],
                         NoCfg, NoBehavior, FALSE)
     \/ lay \in { callLayout("constrained", ExampleNodes, ExampleBox[1], ExampleBox[2],
                             getRenderConfig(DefaultBase, NoOptions), bh, FALSE) :
                    bh \in Behaviors }
     \/ lay = callLayout("crypto", ExampleNodes, ExampleBox[1], ExampleBox[2],
                         getRenderConfig(DefaultBase, NoOptions), CryptoBehavior, FALSE)
  /\ env = Apis
  /\ svc = IdleSvc

LayoutNext == LayoutEnter \/ LayoutStrip \/ LayoutReturn

LayoutSpec == LayoutInit /\ [][LayoutNext]_vars

(* ---------------------------------------------------------------------- *)
(* Geometry used to state the layout properties                           *)
(* ---------------------------------------------------------------------- *)
rectArea(r) == RMul(r.w, r.h)

RECURSIVE sumRectAreaIn(_, _, _)
sumRectAreaIn(rects, lo, hi) ==
  IF lo > hi THEN Zero
  ELSE IF lo = hi THEN rectArea(rects[lo])
  ELSE RAdd(sumRectAreaIn(rects, lo, (lo + hi) \div 2),
            sumRectAreaIn(rects, (lo + hi) \div 2 + 1, hi))

sumRectArea(rects) == sumRectAreaIn(rects, 1, Len(rects))

insideBox(r, W, H) ==
  /\ RGe(r.x, Zero) /\ RGe(r.y, Zero) /\ RGe(r.w, Zero) /\ RGe(r.h, Zero)
  /\ RLe(RAdd(r.x, r.w), W) /\ RLe(RAdd(r.y, r.h), H)

\* the interiors of a and b meet
overlap(a, b) ==
  /\ RLt(a.x, RAdd(b.x, b.w)) /\ RLt(b.x, RAdd(a.x, a.w))
  /\ RLt(a.y, RAdd(b.y, b.h)) /\ RLt(b.y, RAdd(a.y, a.h))

holdsPoint(r, px, py) ==
  /\ RLe(r.x, px) /\ RLe(px, RAdd(r.x, r.w))
  /\ RLe(r.y, py) /\ RLe(py, RAdd(r.y, r.h))

mid(a, b) == RDiv(RAdd(a, b), Num(2))

\* the cells of the grid spanned by all edges: <<low, high>> of neighbouring edges
cellsOf(edges) ==
  { <<a, b>> \in edges \X edges :
      RLt(a, b) /\ \A c \in edges : ~(RLt(a, c) /\ RLt(c, b)) }

\* rects are pairwise non-overlapping and their union is exactly the W x H box
exactCover(rects, W, H) ==
  /\ \A i \in 1..Len(rects) : insideBox(rects[i], W, H)
  /\ \A i \in 1..Len(rects) : \A j \in (i + 1)..Len(rects) : ~overlap(rects[i], rects[j])
  /\ LET xs == {Zero, W} \cup UNION { {rects[i].x, RAdd(rects[i].x, rects[i].w)} : i \in 1..Len(rects) }
         ys == {Zero, H} \cup UNION { {rects[i].y, RAdd(rects[i].y, rects[i].h)} : i \in 1..Len(rects) }
     IN  \A cx \in cellsOf(xs) : \A cy \in cellsOf(ys) :
           \E i \in 1..Len(rects) : holdsPoint(rects[i], mid(cx[1], cx[2]), mid(cy[1], cy[2]))

\* the area a tile is entitled to: weight / total weight * container area
dueAreaOf(tile, totalWeight, run) ==
  RMul(RDiv(capWeight(tile), totalWeight), RMul(run.containerW, run.containerH))

dueArea(tile, run) == dueAreaOf(tile, sumWeight(run.nodes), run)

positiveCall(run) ==
  /\ run.nodes # <<>>
  /\ RGt(run.containerW, Zero) /\ RGt(run.containerH, Zero)

\* position in run.nodes of the tile the pinned-top symbol matches, 0 if none
RECURSIVE pinnedNode(_, _)
pinnedNode(run, i) ==
  IF i > Len(run.nodes) \/ run.cfg.forceTopFullWidthSymbol = "" THEN 0
  ELSE IF toUpperCase(run.nodes[i].tile.symbol) = run.cfg.forceTopFullWidthSymbol THEN i
  ELSE pinnedNode(run, i + 1)

(* ---------------------------------------------------------------------- *)
(* C1..C5: properties of the layout functions (checked under LayoutSpec)  *)
(* ---------------------------------------------------------------------- *)

\* C1: for positive weights and a positive box, the rectangles a layout function
\* returns are pairwise non-overlapping and their union is exactly the container.
C1_ExactCover ==
  (lay.pc = "done" /\ positiveCall(lay))
    => exactCover(lay.rectsPx, lay.containerW, lay.containerH)

\* C2: for positive weights and a positive box, the areas of the returned
\* rectangles add up to the container area (W*H in pixels, 1 normalized), and
\* between two strips the remaining region has the area of the unplaced tiles.
C2_AreaSum ==
  /\ (lay.pc = "done" /\ positiveCall(lay))
       => /\ sumRectArea(lay.rectsPx) = RMul(lay.containerW, lay.containerH)
          /\ sumRectArea(lay.out) = Num(1)
  /\ (lay.pc = "loop" /\ positiveCall(lay))
       => rectArea(lay.rect) = sumArea(lay.remaining)

\* C3: every emitted rectangle has the area weight / total weight * container
\* area: pinned-top tile, last tile of a strip and flipped strips included.
C3_ProportionalArea ==
  positiveCall(lay) =>
    \A totalWeight \in {sumWeight(lay.nodes)} :
      \A i \in 1..Len(lay.rectsPx) :
        rectArea(lay.rectsPx[i]) = dueAreaOf(lay.rectsPx[i].tile, totalWeight, lay)

\* a finished run with a pinned tile and a flipped strip of several tiles
C3_Witness ==
  /\ lay.pc = "done" /\ positiveCall(lay)
  /\ pinnedNode(lay, 1) # 0
  /\ \E k \in 1..Len(lay.log) : lay.log[k].n >= 2 /\ lay.log[k].horizontal # lay.log[k].base
  /\ Len(lay.rectsPx) = Len(lay.nodes)

\* C5: a tile matching the pinned-top symbol (case-insensitively) gets x = 0,
\* y = 0, the container width and height min(H, its due area / W); every other
\* rectangle lies entirely below it, whatever the tile's rank by weight.
C5_PinnedTop ==
  (lay.fn \in {"constrained", "crypto"} /\ lay.pc # "start" /\ positiveCall(lay)
     /\ pinnedNode(lay, 1) # 0)
    => LET tile == lay.nodes[pinnedNode(lay, 1)].tile
           top == lay.rectsPx[1]
       IN  /\ Len(lay.rectsPx) >= 1
           /\ top.tile = tile
           /\ top.x = Zero /\ top.y = Zero /\ top.w = lay.containerW
           /\ top.h = MathMin(lay.containerH, RDiv(dueArea(tile, lay), lay.containerW))
           /\ \A i \in 2..Len(lay.rectsPx) :
                /\ lay.rectsPx[i].tile # tile
                /\ RGe(lay.rectsPx[i].y, RAdd(top.y, top.h))

\* a finished run whose pinned tile is not the heaviest and has tiles below it
C5_Witness ==
  /\ lay.pc = "done" /\ lay.fn \in {"constrained", "crypto"}
  /\ pinnedNode(lay, 1) # 0
  /\ \E i \in 1..Len(lay.nodes) :
       RGt(lay.nodes[i].weight, lay.nodes[pinnedNode(lay, 1)].weight)
  /\ Len(lay.rectsPx) >= 3
  /\ lay.rectsPx[1].tile.symbol = "btc"

(* ---------------------------------------------------------------------- *)
(* C4..C10: properties of renderHeatmap, scheduleDraw and draw            *)
(* ---------------------------------------------------------------------- *)

\* C4: no input record is dropped: a completed draw, and a finished layout run
\* of any length, hold exactly one rectangle per input record, whatever the
\* record's marketCap is.
C4_NoRecordDropped ==
  /\ (lastOp.op = "tick" /\ lastOp.outcome = "drawn")
       => Len(container) = Len(lastCall.tiles)
  /\ (build = "part_006" /\ lastOp.op = "renderHeatmap")
       => Len(container) = Len(lastCall.tiles)
  /\ lay.pc = "done" => Len(lay.rectsPx) = Len(lay.nodes)

\* a read that got through the gate: the container was cleared and repainted
painted(read) == read.outcome \in {"drawn", "empty"}

\* two boxes no more than SIZE_EPS_PX apart on either axis
near(a, b) ==
  /\ RLe(MathAbs(RSub(a[1], b[1])), SIZE_EPS_PX)
  /\ RLe(MathAbs(RSub(a[2], b[2])), SIZE_EPS_PX)

\* the box remembered after read i: that of the latest read that differed
RECURSIVE recordedBox(_, _)
recordedBox(reads, i) ==
  IF i = 1 THEN reads[1].size
  ELSE IF near(reads[i].size, recordedBox(reads, i - 1)) THEN recordedBox(reads, i - 1)
  ELSE reads[i].size

\* read i found the box it was compared with unchanged
stableRead(reads, i) == i > 1 /\ near(reads[i].size, recordedBox(reads, i - 1))

\* number of consecutive unchanged reads ending with read i
RECURSIVE stableRun(_, _)
stableRun(reads, i) ==
  IF i = 0 \/ ~stableRead(reads, i) THEN 0 ELSE 1 + stableRun(reads, i - 1)

ExampleReads == <<<<Num(100), Num(98)>>, <<Num(140), Num(140)>>, <<Num(140), Num(140)>>>>

\* C6 as stated: with the reads (100 x 98), (140 x 140), (140 x 140) on the first
\* three ticks of a fresh surface, the first draw happens on the third read.
C6_FirstDrawOnThirdRead ==
  (Len(hist.reads) >= 3 /\ \A i \in 1..3 : hist.reads[i].size = ExampleReads[i])
    => /\ ~painted(hist.reads[1])
       /\ ~painted(hist.reads[2])
       /\ painted(hist.reads[3])

\* C6 amended: among the first reads of a fresh surface (fewer than the retry
\* cap), a read repaints exactly when it is at least the
\* STABLE_FRAMES_REQUIRED-th consecutive read that found the box unchanged, the
\* read that first brought the new box not counted; the repainting tick queues
\* no further callback. After (100 x 98), (140 x 140), (140 x 140) nothing is
\* painted yet; a fourth read of 140 x 140 paints.
C6_StabilityGate ==
  /\ \A i \in 1..Len(hist.reads) :
       painted(hist.reads[i]) <=> stableRun(hist.reads, i) >= STABLE_FRAMES_REQUIRED
  /\ (lastOp.op = "tick" /\ lastOp.outcome \in {"drawn", "empty"}) => rafQueue = 0
  /\ (Len(hist.reads) >= 3 /\ \A i \in 1..3 : hist.reads[i].size = ExampleReads[i])
       => /\ \A i \in 1..3 : ~painted(hist.reads[i])
          /\ (Len(hist.reads) >= 4 /\ hist.reads[4].size = ExampleReads[3])
               => painted(hist.reads[4])

\* the example reads followed by a fourth read of the same box, which draws
C6_Witness ==
  /\ Len(hist.reads) = 4
  /\ \A i \in 1..3 : hist.reads[i].size = ExampleReads[i] /\ hist.reads[i].outcome = "wait"
  /\ hist.reads[4].size = ExampleReads[3]
  /\ hist.reads[4].outcome = "drawn"
  /\ lastOp.op = "tick" /\ container # <<>>

\* C7: at most one animation-frame callback of the surface is outstanding in
\* every reachable state, and a request (renderHeatmap call or listener event)
\* arriving while one is outstanding schedules nothing.
C7_Coalescing ==
  /\ rafQueue <= 1
  /\ (rafQueue = 1) <=> (state.rafId # 0)
  /\ (lastOp.op \in {"renderHeatmap", "listener"} /\ lastOp.queued = 1) => rafQueue = 1

\* a renderHeatmap call that found a callback outstanding, and a tick whose gate
\* rescheduled from inside draw() before it
C7_Witness ==
  /\ lastOp.op = "renderHeatmap" /\ lastOp.queued = 1 /\ rafQueue = 1
  /\ state._stabilizeTries >= 2

\* C8: on a surface of at least 2 px whose callbacks always run, every
\* renderHeatmap request is eventually followed by a tick that repaints.
C8_EventuallyDrawn ==
  [](lastOp.op = "renderHeatmap"
       => <>(lastOp.op = "tick" /\ lastOp.outcome \in {"drawn", "empty"}))

\* a box below 2 px on an axis (zero included)
hiddenBox(size) == RLt(size[1], Num(2)) \/ RLt(size[2], Num(2))

\* C9 as stated: after a tick on a surface below 2 px, or with an empty tile
\* list, the container holds no tiles of an earlier draw.
C9_ClearsOutput ==
  (lastOp.op = "tick" /\ (hiddenBox(lastOp.size) \/ state.tiles = <<>>))
    => container = <<>>

\* C9 amended: a tick on a surface below 2 px changes nothing but the consumed
\* callback: the container keeps what an earlier draw put there. A tick with an
\* empty tile list clears the container when the stability gate lets it
\* through, and leaves it as it was while the gate waits.
C9_HiddenKeepsOutput ==
  [][lastOp'.op = "tick"
       => /\ hiddenBox(lastOp'.size)
               => /\ container' = container
                  /\ state' = [state EXCEPT !.rafId = 0]
                  /\ rafQueue' = rafQueue - 1
          /\ (~hiddenBox(lastOp'.size) /\ state.tiles = <<>>)
               => container' = (IF lastOp'.outcome = "wait" THEN container ELSE <<>>)]_vars

\* a tick on a hidden surface after which the tiles of an earlier draw are shown
C9_Witness ==
  /\ lastOp.op = "tick" /\ hiddenBox(lastOp.size)
  /\ container # <<>>

\* what draw() paints from the inputs of `call` in a box of `size`
expectedOutput(build_, call, cache, size) ==
  LET mode == modeOf(build_, call.options)
      profile == profileOf(build_, mode)
      base == IF profile = "" THEN DefaultBase ELSE cache[profile]
  IN  paintOf(build_, [tiles |-> call.tiles, timeframe |-> call.timeframe,
                       options |-> call.options], base, size)

\* C10: the stored inputs are those of the latest renderHeatmap call, and every
\* tick that repaints shows exactly what the tiles, timeframe and options of
\* that call give in the box it read, also when the call replaced inputs that
\* were still waiting for their callback.
C10_LatestInputWins ==
  /\ state.exists
       => /\ state.tiles = lastCall.tiles
          /\ state.timeframe = lastCall.timeframe
          /\ state.options = lastCall.options
  /\ (lastOp.op = "tick" /\ lastOp.outcome = "drawn")
       => \A want \in {expectedOutput(build, lastCall, state._measureCache, lastOp.size)} :
            container = want
  /\ (lastOp.op = "tick" /\ lastOp.outcome = "empty")
       => lastCall.tiles = <<>> /\ container = <<>>

\* a repaint after a call that replaced other inputs while a callback was queued
C10_Witness ==
  /\ lastOp.op = "tick" /\ lastOp.outcome = "drawn"
  /\ lastCall.replaced
  /\ container # <<>>

\* C11: over any number of renderHeatmap calls every event source the browser
\* offers is registered exactly once (an absent API never), and a call that
\* finds the listeners installed registers nothing: in the state entry it
\* replaces the stored tiles, timeframe and options and, through scheduleDraw,
\* may set rafId.
C11_InstallOnce ==
  [][ /\ \A kind \in ListenerKinds :
           listeners'[kind] = IF state'._installed /\ available(env, kind) THEN 1 ELSE 0
      /\ (lastOp'.op = "renderHeatmap" /\ state._installed)
           => /\ listeners' = listeners
              /\ state' = [state EXCEPT !.tiles = lastCall'.tiles,
                                         !.timeframe = lastCall'.timeframe,
                                         !.options = lastCall'.options,
                                         !.rafId = state'.rafId] ]_vars

\* a later call that replaced waiting inputs, in a browser without
\* ResizeObserver: the viewport and window handlers are registered once
C11_Witness ==
  /\ lastOp.op = "renderHeatmap" /\ lastCall.replaced
  /\ env = {"visualViewport"}
  /\ listeners["vv.scroll"] = 1 /\ listeners["orientationchange"] = 1
  /\ listeners["ResizeObserver"] = 0

\* the baseline draw() used for the stored options (the profile's cache entry)
baselineOf(s) == s._measureCache[profileOf(build, modeOf(build, s.options))]

\* C12: after a draw in a mode that has a baseline, the scale of every tile is
\* at most tileWidthPx / baselineWidthPx and at most tileHeightPx / baselineHeightPx.
C12_ScaleWithinFit ==
  (lastOp.op = "tick" /\ lastOp.outcome = "drawn"
     /\ profileOf(build, modeOf(build, state.options)) # "")
    => \A i \in 1..Len(container) :
         /\ ~scaleGt(container[i].scale, RDiv(container[i].tileWidthPx, baselineOf(state).w))
         /\ ~scaleGt(container[i].scale, RDiv(container[i].tileHeightPx, baselineOf(state).h))

\* a finished run of a layout function on the three tiles A 60, B 25, C 15 in
\* 300 x 100 px, no pinned symbol and no priority symbol configured
exampleRun(run) ==
  /\ run.pc = "done" /\ run.nodes = ExampleNodes
  /\ run.containerW = ExampleBox[1] /\ run.containerH = ExampleBox[2]
  /\ run.cfg.forceTopFullWidthSymbol = "" /\ run.cfg.prioritySymbols = {}

\* A alone in the first strip at {0, 0, 180, 100}; B, then C, in the 120 x 100
\* px to its right with areas 7500 and 4500
exampleRects(rectsPx) ==
  /\ Len(rectsPx) = 3
  /\ rectsPx[1] = [tile |-> ExampleNodes[1].tile, x |-> Zero, y |-> Zero,
                   w |-> Num(180), h |-> Num(100)]
  /\ \A i \in 2..3 :
       /\ rectsPx[i].tile = ExampleNodes[i].tile
       /\ RGe(rectsPx[i].x, Num(180)) /\ RGe(rectsPx[i].y, Zero)
       /\ RLe(RAdd(rectsPx[i].x, rectsPx[i].w), Num(300))
       /\ RLe(RAdd(rectsPx[i].y, rectsPx[i].h), Num(100))
  /\ rectArea(rectsPx[2]) = Num(7500) /\ rectArea(rectsPx[3]) = Num(4500)

\* the functions whose base orientation is a column when the region is wider
\* than it is tall
columnsWhenShort(run) ==
  run.fn = "crypto" \/ (run.fn = "constrained" /\ run.behavior.preferColumnsWhenShort)

\* C13 as stated: every layout function puts A 60, B 25, C 15 in 300 x 100 as
\* A = {0, 0, 180, 100} and B, C to its right with areas 7500 and 4500.
C13_ExampleEveryFunction ==
  exampleRun(lay) => exampleRects(lay.rectsPx)

\* C13: computeCryptoTreemap and computeConstrainedTreemap with
\* preferColumnsWhenShort put A alone in the first strip, a column, at
\* {0, 0, 180, 100} and B, then C, to its right with areas 7500 and 4500;
\* computeRowTreemap gives the same rectangles as one row of three tiles;
\* computeSquarifyTreemap and computeConstrainedTreemap without
\* preferColumnsWhenShort give A the row {0, 0, 300, 60}.
C13_ExampleLayout ==
  exampleRun(lay) =>
    IF columnsWhenShort(lay)
    THEN exampleRects(lay.rectsPx) /\ lay.log[1].n = 1 /\ ~lay.log[1].horizontal
    ELSE IF lay.fn = "row"
    THEN exampleRects(lay.rectsPx)
    ELSE lay.rectsPx[1] = [tile |-> ExampleNodes[1].tile, x |-> Zero, y |-> Zero,
                           w |-> Num(300), h |-> Num(60)]

\* the example laid out by computeConstrainedTreemap with both policies on
C13_Witness ==
  /\ exampleRun(lay) /\ lay.fn = "constrained"
  /\ lay.behavior.preferColumnsWhenShort /\ lay.behavior.constrainAllStrips
  /\ Len(lay.rectsPx) = 3 /\ Len(lay.log) = 3

\* C14: a finished call with an empty tile list, or with a container of zero
\* width or zero height, returns the empty list, also when the pinned-top
\* symbol is configured and present among the tiles.
C14_DegenerateIsEmpty ==
  (lay.pc = "done"
     /\ (lay.nodes = <<>> \/ lay.containerW = Zero \/ lay.containerH = Zero))
    => lay.out = <<>>

\* minor-axis thickness of a strip of the strip loop laid as a row (its height)
\* or as a column (its width) in the region it was built for
thickness(entry, horizontal) ==
  IF horizontal THEN RDiv(entry.area, entry.rect.w) ELSE RDiv(entry.area, entry.rect.h)

\* a row thinner than minStripHeightPx, a column thinner than minStripWidthPx
subThreshold(entry, cfg, horizontal) ==
  RLt(thickness(entry, horizontal),
      IF horizontal THEN cfg.minStripHeightPx ELSE cfg.minStripWidthPx)

\* C15: with constrainAllStrips, every strip of the strip loop (the pinned-top
\* rectangle is exempt) that is committed thinner than the threshold of its
\* committed orientation was flipped, once, from a base orientation in which
\* it was thinner than that orientation's threshold too; so no strip is
\* committed sub-threshold when one of the two orientations meets its threshold.
C15_ConstrainAll ==
  (lay.fn = "constrained" /\ lay.behavior.constrainAllStrips /\ positiveCall(lay))
    => \A k \in 1..Len(lay.log) :
         LET entry == lay.log[k]
         IN  /\ subThreshold(entry, lay.cfg, entry.horizontal)
                  => /\ entry.horizontal # entry.base
                     /\ subThreshold(entry, lay.cfg, entry.base)
             /\ (~subThreshold(entry, lay.cfg, TRUE) \/ ~subThreshold(entry, lay.cfg, FALSE))
                  => ~subThreshold(entry, lay.cfg, entry.horizontal)

\* a finished run under constrainAllStrips with a strip that was flipped and
\* meets its threshold as flipped, and a strip that was flipped and committed
\* below the threshold of both orientations
C15_Witness ==
  /\ lay.pc = "done" /\ lay.fn = "constrained" /\ lay.behavior.constrainAllStrips
  /\ positiveCall(lay)
  /\ \E k \in 1..Len(lay.log) :
       /\ lay.log[k].horizontal # lay.log[k].base
       /\ ~subThreshold(lay.log[k], lay.cfg, lay.log[k].horizontal)
  /\ \E k \in 1..Len(lay.log) :
       /\ lay.log[k].horizontal # lay.log[k].base
       /\ subThreshold(lay.log[k], lay.cfg, lay.log[k].horizontal)

\* position in run.nodes of the tile of a rectangle
nodeOf(run, r) == CHOOSE i \in 1..Len(run.nodes) : run.nodes[i].tile = r.tile

\* the node at position a is placed before the node at position b: it is
\* heavier, or as heavy and earlier in the input
placedBefore(run, a, b) ==
  \/ RGt(run.nodes[a].weight, run.nodes[b].weight)
  \/ run.nodes[a].weight = run.nodes[b].weight /\ a < b

C17_MeasuredOnce ==
  [][ \A profile \in {"crypto", "text"} :
        /\ state._measureCache[profile].ok
              => state'._measureCache[profile] = state._measureCache[profile]
        /\ state'._measureCache[profile] # state._measureCache[profile]
              => /\ lastOp'.op = "tick" /\ lastOp'.outcome = "drawn"
                 /\ profile = profileOf(build, modeOf(build, state.options))
                 /\ state'._measureCache[profile].ok ]_vars

\* two draws in a row on a surface whose baseline was measured from the probe
C17_Witness ==
  /\ build = "heatmap" /\ Len(hist.reads) = 4
  /\ hist.reads[3].outcome = "drawn" /\ hist.reads[4].outcome = "drawn"
  /\ state._measureCache["crypto"] = [ok |-> TRUE, w |-> Num(62), h |-> Num(40)]
  /\ lastOp.op = "tick" /\ lastOp.outcome = "drawn"

\* the weight the rule gives a record: its marketCap when that is a number
\* greater than 0, and 1 otherwise
ruleWeight(t) ==
  IF t.marketCap.k = "num" /\ ~IsNaN(t.marketCap.v) /\ RGt(t.marketCap.v, Zero)
  THEN t.marketCap.v ELSE Num(1)

RECURSIVE sumRuleWeight(_, _)
sumRuleWeight(tiles, i) ==
  IF i > Len(tiles) THEN Zero ELSE RAdd(ruleWeight(tiles[i]), sumRuleWeight(tiles, i + 1))

\* C18: in the revisions that lay tiles out by weight, the nodes draw() hands to
\* the layout function are one per stored record, in order, each with the
\* weight of the rule (marketCap if a number > 0, else 1), all positive with a
\* positive total; after a draw every record is painted with that share of the box.
C18_WeightCoercion ==
  (build # "part_006" /\ lastOp.op = "tick" /\ lastOp.outcome = "drawn")
    => LET nodes == toNodes(state.tiles)
       IN  /\ Len(nodes) = Len(state.tiles)
           /\ \A i \in 1..Len(nodes) :
                /\ nodes[i].tile = state.tiles[i]
                /\ nodes[i].weight = ruleWeight(state.tiles[i])
                /\ RGt(nodes[i].weight, Zero)
           /\ RGt(sumWeight(nodes), Zero)
           /\ Len(container) = Len(state.tiles)
           /\ \A i \in 1..Len(container) :
                RMul(container[i].w, container[i].h)
                  = RDiv(ruleWeight(container[i].tile), sumRuleWeight(state.tiles, 1))

\* a draw of the sector tiles, whose marketCaps are a number, NaN, a negative
\* number, a string and zero
C18_Witness ==
  /\ build = "part_007" /\ lastOp.op = "tick" /\ lastOp.outcome = "drawn"
  /\ state.tiles = TilesB /\ Len(container) = 5
  /\ \E i \in 1..5 : container[i].tile.symbol = "XLV"
                        /\ RMul(container[i].w, container[i].h) = Frac(1, 7)

\* the metrics of a tile in the order the chain tries them for a timeframe
metricChain(tile, timeframe) ==
  IF timeframe = "1D" THEN <<tile.changePct1D, tile.changePct1W, tile.changePct1M>>
  ELSE IF timeframe = "1W" THEN <<tile.changePct1W, tile.changePct1D, tile.changePct1M>>
  ELSE <<tile.changePct1M, tile.changePct1W, tile.changePct1D>>

finiteNumber(x) == x.k = "num" /\ IsFinite(x.v)

\* the first metric of the chain that is a finite number, null if there is none
chainPct(tile, timeframe) ==
  LET chain == metricChain(tile, timeframe)
  IN  IF finiteNumber(chain[1]) THEN chain[1]
      ELSE IF finiteNumber(chain[2]) THEN chain[2]
      ELSE IF finiteNumber(chain[3]) THEN chain[3]
      ELSE JNull

\* C19: the percent change painted for a tile is the primary metric of the
\* stored timeframe when that is a number, otherwise the first finite number of
\* the fallback order (1D: 1W then 1M; 1W: 1D then 1M; other: 1W then 1D), and
\* null only if the chain holds no finite number.
C19_FallbackChain ==
  (build # "part_006" /\ lastOp.op = "tick" /\ lastOp.outcome = "drawn")
    => \A i \in 1..Len(container) :
         container[i].pct = chainPct(container[i].tile, state.timeframe)

\* the upper-cased symbol of the tile is one of the priority symbols of the
\* stored options, upper-cased
prioritySymbol(options, tile) ==
  \E k \in 1..Len(options.prioritySymbols) :
    toUpperCase(options.prioritySymbols[k]) = toUpperCase(tile.symbol)

\* scale >= 1.05, and pixel height and width at least 0.95 x the baseline
textThresholds(el, base) ==
  /\ scaleGe(el.scale, Frac(105, 100))
  /\ RGe(el.tileHeightPx, RMul(base.h, Frac(95, 100)))
  /\ RGe(el.tileWidthPx, RMul(base.w, Frac(95, 100)))

\* C20: after a draw in crypto mode, every priority tile has showText, a
\* non-priority tile has showText only if it meets the text thresholds,
\* showLogo is set only on tiles with a logo URL, and a non-priority tile
\* without a logo that misses the thresholds has neither.
C20_VisibilityFlags ==
  (build # "part_006" /\ lastOp.op = "tick" /\ lastOp.outcome = "drawn"
     /\ state.options.mode = "crypto")
    => \A i \in 1..Len(container) :
         LET el == container[i]
             priority == prioritySymbol(state.options, el.tile)
         IN  /\ priority => el.showText
             /\ (~priority /\ el.showText) => textThresholds(el, baselineOf(state))
             /\ el.showLogo => el.tile.logoUrl # ""
             /\ (~priority /\ el.tile.logoUrl = ""
                   /\ ~textThresholds(el, baselineOf(state)))
                  => ~el.showText /\ ~el.showLogo

\* a crypto draw with a priority tile that shows text below the thresholds, a
\* non-priority tile that shows text, and a non-priority tile without a logo
\* that shows nothing
C20_Witness ==
  /\ build # "part_006" /\ lastOp.op = "tick" /\ lastOp.outcome = "drawn"
  /\ state.options.mode = "crypto"
  /\ \E i \in 1..Len(container) :
       /\ prioritySymbol(state.options, container[i].tile) /\ container[i].showText
       /\ ~textThresholds(container[i], baselineOf(state))
  /\ \E i \in 1..Len(container) :
       /\ ~prioritySymbol(state.options, container[i].tile) /\ container[i].showText
  /\ \E i \in 1..Len(container) :
       /\ ~prioritySymbol(state.options, container[i].tile)
       /\ container[i].tile.logoUrl = ""
       /\ ~container[i].showText /\ ~container[i].showLogo

\* C21: a tick that reads a box of at least 2 px repaints exactly when, after
\* the read, the settle counter is at least STABLE_FRAMES_REQUIRED or the retry
\* counter has reached the cap; every other such tick leaves the container as
\* it was and leaves exactly one callback queued.
C21_GateSafety ==
  [][ (lastOp'.op = "tick" /\ ~hiddenBox(lastOp'.size))
        => IF state'._stableFrames >= STABLE_FRAMES_REQUIRED
              \/ state'._stabilizeTries >= STABILIZE_TRIES_CAP
           THEN lastOp'.outcome \in {"drawn", "empty"}
           ELSE /\ lastOp'.outcome = "wait"
                /\ container' = container
                /\ rafQueue = 1 /\ rafQueue' = 1 /\ state'.rafId # 0 ]_vars

\* a tick that waited on a changed read while the tiles of an earlier draw
\* stayed in the container
C21_Witness ==
  /\ lastOp.op = "tick" /\ lastOp.outcome = "wait" /\ ~hiddenBox(lastOp.size)
  /\ container # <<>> /\ rafQueue = 1
  /\ state._stableFrames = 0 /\ state._stabilizeTries >= 1

\* the read is the first of the surface, or its width or height differs from
\* the last-seen size by more than 0.5 px
changedRead(s, size) ==
  \/ s._lastW = Undefined \/ s._lastH = Undefined
  \/ ~near(size, <<s._lastW, s._lastH>>)

\* C22: a changed read of a box of at least 2 px stores the size as last-seen,
\* sets the settle counter to 0 and adds 1 to the retry counter; an unchanged
\* read keeps last-seen, adds 1 to the settle counter and sets the retry
\* counter to 0; in every reachable state one of the two counters is 0.
C22_CounterTransitions ==
  /\ [](state._stableFrames = 0 \/ state._stabilizeTries = 0)
  /\ [][ (lastOp'.op = "tick" /\ ~hiddenBox(lastOp'.size))
           => IF changedRead(state, lastOp'.size)
              THEN /\ <<state'._lastW, state'._lastH>> = lastOp'.size
                   /\ state'._stableFrames = 0
                   /\ state'._stabilizeTries = state._stabilizeTries + 1
              ELSE /\ state'._lastW = state._lastW /\ state'._lastH = state._lastH
                   /\ state'._stableFrames = state._stableFrames + 1
                   /\ state'._stabilizeTries = 0 ]_vars

\* an unchanged read of a box within 0.5 px of the last-seen one, after changed
\* reads: last-seen keeps the older size and the retry counter is back at 0
C22_Witness ==
  /\ lastOp.op = "tick" /\ ~hiddenBox(lastOp.size)
  /\ <<state._lastW, state._lastH>> # lastOp.size
  /\ state._stableFrames = 1 /\ state._stabilizeTries = 0
  /\ Len(hist.reads) = 3 /\ hist.reads[2].size # hist.reads[1].size

\* the last operation was a tick that read a box of at least 2 px and found it
\* changed (the settle counter is 0 only after a changed read)
afterChangedRead ==
  lastOp.op = "tick" /\ ~hiddenBox(lastOp.size) /\ state._stableFrames = 0

\* C23 as stated: a changed read does not draw while the retry counter is at
\* most 12, and draws once the counter exceeds 12.
C23_ForcedAboveCap ==
  afterChangedRead => (painted(lastOp) <=> state._stabilizeTries > STABILIZE_TRIES_CAP)

\* C23: a changed read does not draw while the retry counter is below 12, and
\* the draw is forced by the read that brings the counter to 12, the twelfth
\* changed read in a row, and by every changed read after it.
C23_ForcedAtCap ==
  afterChangedRead => (painted(lastOp) <=> state._stabilizeTries >= STABILIZE_TRIES_CAP)

\* the twelfth changed read in a row repainted the container
C23_Witness ==
  /\ afterChangedRead /\ lastOp.outcome = "drawn"
  /\ state._stabilizeTries = STABILIZE_TRIES_CAP /\ rafQueue = 0

\* this step is a tick that reads a box of at least 2 px
readStep == lastOp'.op = "tick" /\ ~hiddenBox(lastOp'.size)

\* C24: a changed read that repaints leaves the retry counter at its
\* incremented value, at or above the cap, and schedules no further tick;
\* while the counter is at or above the cap every changed read repaints on its
\* own tick; only a read changes the counter, and only an unchanged read
\* lowers it, to 0; and with the counter at 0 a changed read waits again.
C24_AfterForcedDraw ==
  [][ IF readStep
      THEN IF changedRead(state, lastOp'.size)
           THEN /\ state'._stabilizeTries = state._stabilizeTries + 1
                /\ painted(lastOp')
                     => /\ state'._stabilizeTries >= STABILIZE_TRIES_CAP
                        /\ rafQueue' = rafQueue - 1 /\ state'.rafId = 0
                /\ state._stabilizeTries >= STABILIZE_TRIES_CAP => painted(lastOp')
                /\ state._stabilizeTries = 0
                     => lastOp'.outcome = "wait" /\ rafQueue' = 1
           ELSE state'._stabilizeTries = 0
      ELSE state'._stabilizeTries = state._stabilizeTries ]_vars

\* a changed read after the cap-forced draw repainted on its own tick
C24_Witness ==
  /\ afterChangedRead /\ lastOp.outcome = "drawn"
  /\ state._stabilizeTries = STABILIZE_TRIES_CAP + 1
  /\ rafQueue = 0 /\ state.rafId = 0

\* the tiles the strip loop of a run starts with, in descending weight order:
\* all of them, or all but the pinned-top tile
loopItems(run) ==
  IF run.fn \in {"constrained", "crypto"}
  THEN forceTop(run.items, fullRect(run.containerW, run.containerH), run.cfg).items
  ELSE run.items

\* the not-yet-placed tiles the last strip of the log was built from
lastRemaining(run) ==
  LET all == loopItems(run)
      before == Len(all) - Len(run.remaining) - run.log[Len(run.log)].n
  IN  SubSeq(all, before + 1, Len(all))

\* the first n tiles of rem are what the growth rule takes: every tile after
\* the first was added because it did not increase worst, and the tile after
\* the last, if there is one, would not satisfy worst(strip + tile) <= worst(strip)
grownPrefix(rem, n, side) ==
  /\ n >= 1 /\ n <= Len(rem)
  /\ \A m \in 1..(n - 1) :
       RLe(worst(SubSeq(rem, 1, m + 1), side), worst(SubSeq(rem, 1, m), side))
  /\ n < Len(rem)
       => ~RLe(worst(SubSeq(rem, 1, n + 1), side), worst(SubSeq(rem, 1, n), side))

\* the last strip of the log follows the growth rule with side = min(w, h) of
\* the region it was started in
lastStripGrown(run) ==
  LET entry == run.log[Len(run.log)]
  IN  /\ Len(loopItems(run)) - Len(run.remaining) >= entry.n
      /\ grownPrefix(lastRemaining(run), entry.n, MathMin(entry.rect.w, entry.rect.h))
      /\ entry.area = sumArea(SubSeq(lastRemaining(run), 1, entry.n))

\* C25: in computeSquarifyTreemap, computeConstrainedTreemap and
\* computeCryptoTreemap each strip is a non-empty prefix of the not-yet-placed
\* tiles, grown while worst(strip + tile) <= worst(strip) with side = min(w, h)
\* of the remaining region, and when a call in a positive container returns,
\* every tile of the strip loop is in exactly one strip.
C25_StripGrowth ==
  (lay.fn \in {"squarify", "constrained", "crypto"})
    => /\ lay.log # <<>> => lastStripGrown(lay)
       /\ (lay.pc = "done" /\ positiveCall(lay) /\ lay.items # <<>>)
            => lay.remaining = <<>>

\* the same for the calls that need fewer strips than the strip loop's cap
C25_StripGrowthBelowCap ==
  Len(lay.nodes) < SAFE_GUARD_MAX => C25_StripGrowth

\* the tiles of the last strip of the log
lastStrip(run) == SubSeq(lastRemaining(run), 1, run.log[Len(run.log)].n)

\* the rectangles pushed last, as many as the last strip has tiles
lastPushed(run) ==
  SubSeq(run.rectsPx, Len(run.rectsPx) - run.log[Len(run.log)].n + 1, Len(run.rectsPx))

\* the rectangles hold the tiles of the strip in order, side by side in a row
\* of the strip's height or stacked in a column of the strip's width
laidAs(strip, rects, entry, horizontal) ==
  /\ Len(rects) = Len(strip)
  /\ \A i \in 1..Len(strip) :
       /\ rects[i].tile = strip[i].tile
       /\ IF horizontal
          THEN rects[i].y = entry.rect.y /\ rects[i].h = thickness(entry, TRUE)
          ELSE rects[i].x = entry.rect.x /\ rects[i].w = thickness(entry, FALSE)

\* C26: in the constrained variants a strip is committed in the orientation
\* opposite to its base orientation iff it qualifies for protection and its
\* thickness under the base orientation is strictly below that orientation's
\* threshold; the committed strip holds the same tiles in the same order, laid
\* in the committed orientation, whether or not it meets the threshold of the
\* flipped orientation.
C26_FlipRule ==
  (lay.fn \in {"constrained", "crypto"} /\ lay.log # <<>>)
    => LET entry == lay.log[Len(lay.log)]
           strip == lastStrip(lay)
       IN  /\ entry.horizontal # entry.base
                <=> /\ shouldConstrainStrip(strip, lay.cfg, lay.behavior)
                    /\ subThreshold(entry, lay.cfg, entry.base)
           /\ Len(lay.rectsPx) >= entry.n
           /\ laidAs(strip, lastPushed(lay), entry, entry.horizontal)

\* a strip that qualifies by a priority symbol only, was flipped, and is
\* committed below the threshold of the flipped orientation
C26_Witness ==
  /\ lay.fn \in {"constrained", "crypto"} /\ lay.log # <<>>
  /\ ~lay.behavior.constrainAllStrips
  /\ LET entry == lay.log[Len(lay.log)]
     IN  /\ entry.horizontal # entry.base
         /\ subThreshold(entry, lay.cfg, entry.horizontal)
         /\ laidAs(lastStrip(lay), lastPushed(lay), entry, ~entry.base)

\* no tile of the strip has its upper-cased symbol in the priority set
noPriorityTile(strip, cfg) == \A i \in 1..Len(strip) : ~isPriority(cfg, strip[i].tile)

\* C27: in the constrained variants, under the priority-only policy a strip
\* without a priority tile is committed in its base orientation, however thin
\* it is; under constrain-all a strip is flipped exactly when it is below the
\* threshold of its base orientation; the pinned-top tile is never a strip of
\* the loop: it is one full-width row at the top, whatever its height.
C27_Eligibility ==
  (lay.fn \in {"constrained", "crypto"})
    => /\ lay.log # <<>>
            => LET entry == lay.log[Len(lay.log)]
               IN  /\ (~lay.behavior.constrainAllStrips
                          /\ noPriorityTile(lastStrip(lay), lay.cfg))
                        => entry.horizontal = entry.base
                   /\ lay.behavior.constrainAllStrips
                        => (entry.horizontal # entry.base
                              <=> subThreshold(entry, lay.cfg, entry.base))
       /\ (lay.pc # "start" /\ positiveCall(lay) /\ pinnedNode(lay, 1) # 0)
            => /\ Len(lay.rectsPx) = 1 + Len(loopItems(lay)) - Len(lay.remaining)
               /\ Len(loopItems(lay)) = Len(lay.items) - 1
               /\ lay.rectsPx[1].tile = lay.nodes[pinnedNode(lay, 1)].tile
               /\ lay.rectsPx[1].x = Zero /\ lay.rectsPx[1].y = Zero
               /\ lay.rectsPx[1].w = lay.containerW

\* under the priority-only policy: a pinned-top row whose symbol is a priority
\* symbol and whose height is below the row threshold, followed by a strip
\* without a priority tile committed in its base orientation below that
\* orientation's threshold
C27_Witness ==
  /\ lay.fn \in {"constrained", "crypto"} /\ ~lay.behavior.constrainAllStrips
  /\ positiveCall(lay) /\ pinnedNode(lay, 1) # 0 /\ lay.log # <<>>
  /\ isPriority(lay.cfg, lay.rectsPx[1].tile)
  /\ RLt(lay.rectsPx[1].h, lay.cfg.minStripHeightPx)
  /\ LET entry == lay.log[Len(lay.log)]
     IN  /\ noPriorityTile(lastStrip(lay), lay.cfg)
         /\ entry.horizontal = entry.base
         /\ subThreshold(entry, lay.cfg, entry.base)

\* C28: in computeConstrainedTreemap the base orientation of every strip (each
\* is the last of the log when it is committed) is a
\* row iff, with preferColumnsWhenShort, the height of the region remaining
\* before that strip is >= its width and, without it, the width is >= the
\* height; a square region gets a row under both policies;
\* computeCryptoTreemap follows the first policy and computeSquarifyTreemap the
\* second (from its second strip on).
C28_BaseOrientation ==
  (positiveCall(lay) /\ lay.log # <<>>)
    => LET k == Len(lay.log)
           entry == lay.log[k]
           tall == RGe(entry.rect.h, entry.rect.w)
           wide == RGe(entry.rect.w, entry.rect.h)
       IN  /\ lay.fn = "constrained"
                => /\ entry.base = IF lay.behavior.preferColumnsWhenShort THEN tall ELSE wide
                   /\ entry.rect.w = entry.rect.h => entry.base
           /\ lay.fn = "crypto" => entry.base = tall
           /\ (lay.fn = "squarify" /\ k >= 2) => entry.base = wide

\* a run of computeConstrainedTreemap with preferColumnsWhenShort in a square
\* container whose first strip has a row and whose second strip, in the wide
\* region that is left, has a column as base orientation
C28_Witness ==
  /\ lay.fn = "constrained" /\ lay.behavior.preferColumnsWhenShort
  /\ lay.containerW = lay.containerH /\ RGt(lay.containerW, Zero)
  /\ lay.cfg.forceTopFullWidthSymbol = ""
  /\ Len(lay.log) >= 2
  /\ lay.log[1].base /\ ~lay.log[2].base

\* tiles taken out of the strip loop's list so far
placedCount(run) == Len(loopItems(run)) - Len(run.remaining)

\* iterations of the while loop of computeSquarifyTreemap made so far: one per
\* tile pushed into a row and one per layoutRow called inside the loop (the
\* last row is laid out after the loop)
whileIterations(run) ==
  placedCount(run)
    + (IF run.log = <<>> THEN 0
       ELSE IF run.remaining = <<>> THEN Len(run.log) - 1 ELSE Len(run.log))

\* every step of a strip loop ends the loop or takes at least one tile off
\* the list, and the constrained variants count at most 300 strips
loopProgress ==
  /\ lay.pc = "loop" => (lay'.pc = "done" \/ Len(lay'.remaining) < Len(lay.remaining))
  /\ Len(lay'.log) <= placedCount(lay')
  /\ lay'.fn \in {"constrained", "crypto"}
       => lay'.safeGuard = Len(lay'.log) /\ lay'.safeGuard <= SAFE_GUARD_MAX

\* C29 as stated: every step of a strip loop ends the loop or places at least
\* one tile, and no loop makes more iterations than there are tiles.
C29_IterationsAtMostTiles ==
  [][ /\ loopProgress
      /\ lay'.fn = "squarify" => whileIterations(lay') <= Len(lay'.items) ]_vars

\* C29: every layout call terminates, in zero-size containers too: every step
\* of a strip loop ends the loop or takes at least one tile off the list, so
\* there are at most as many strips as tiles (and at most 300 in the
\* constrained variants); the while loop of computeSquarifyTreemap, which
\* spends one iteration per tile and one per row laid out inside the loop,
\* makes at most 2n - 1 iterations for n tiles.
C29_Terminates ==
  [][ /\ loopProgress
      /\ (lay'.fn = "squarify" /\ lay'.items # <<>>)
           => whileIterations(lay') <= 2 * Len(lay'.items) - 1 ]_vars

\* a finished run of computeSquarifyTreemap that laid two or more tiles, each
\* in a row of its own, in 2n - 1 iterations of the while loop
C29_Witness ==
  /\ lay.fn = "squarify" /\ lay.pc = "done" /\ Len(lay.items) >= 2
  /\ whileIterations(lay) = 2 * Len(lay.items) - 1

\* C30: a draw whose content measurement fails caches the default baseline,
\* 70 px wide by 46 px high, for the profile of the surface, paints every tile
\* with the scale, visibility and thresholds that follow from that baseline,
\* and a cached default baseline is never replaced.
C30_MeasureFallback ==
  [][ /\ ( /\ lastOp'.op = "tick" /\ lastOp'.outcome = "drawn"
           /\ profileOf(build, modeOf(build, state.options)) # ""
           /\ ~baselineOf(state).ok
           /\ \E probe \in Probes :
                ~measureContentSize(probe).ok /\ tick(lastOp'.size, probe) )
         => /\ baselineOf(state') = DefaultBase
            /\ baselineOf(state').w = Num(70) /\ baselineOf(state').h = Num(46)
            /\ Len(container') = Len(state.tiles)
            /\ container' = paintOf(build, [tiles |-> state.tiles,
                                            timeframe |-> state.timeframe,
                                            options |-> state.options],
                                    DefaultBase, lastOp'.size)
      /\ \A profile \in {"crypto", "text"} :
           state._measureCache[profile] = DefaultBase
             => state'._measureCache[profile] = DefaultBase ]_vars

\* a draw of four tiles completed on the default baseline, which is cached,
\* after an earlier draw on the same baseline
C30_Witness ==
  /\ lastOp.op = "tick" /\ lastOp.outcome = "drawn"
  /\ profileOf(build, modeOf(build, state.options)) # ""
  /\ baselineOf(state) = DefaultBase
  /\ Len(container) = 4 /\ Len(state.tiles) = 4
  /\ Len(hist.reads) = 4
  /\ hist.reads[3].outcome = "drawn" /\ hist.reads[4].outcome = "drawn"

(* ---------------------------------------------------------------------- *)
(* The scale of one tile, over rectangles, boxes, baselines and modes     *)
(* ---------------------------------------------------------------------- *)

\* normalized widths and heights of a rectangle, from a sliver to the whole box
ScaleFractions == { Frac(1, 1000), Frac(1, 10), Frac(1, 2), Num(1) }

ScaleModes == {"default", "crypto", "sectors"}

\* one tile about to get its scale in draw(): rect is normalized, size is the box
ScaleInit ==
  /\ build \in Builds \ {"part_006"}
  /\ state = NoState
  /\ rafQueue = 0
  /\ listeners = [k \in ListenerKinds |-> 0]
  /\ container = <<>>
  /\ lastCall = NoCall
  /\ lastOp = [op |-> "none", size |-> NoSize, outcome |-> "", queued |-> 0,
              probeLeft |-> FALSE]
  /\ hist = [on |-> TRUE, reads |-> <<>>]
  /\ lay \in { [fn |-> "tileScale", mode |-> m, cfg |-> getRenderConfig(base, NoOptions),
                 rect |-> [w |-> w, h |-> h], size |-> size, pc |-> "start",
                 out |-> plainScale(Zero)] :
                 m \in ScaleModes, base \in Baselines, w \in ScaleFractions,
                 h \in ScaleFractions, size \in VisibleSizes }
  /\ env = Apis
  /\ svc = IdleSvc

ScaleApply ==
  /\ lay.pc = "start"
  /\ lay' = [lay EXCEPT !.pc = "done",
                        !.out = tileScale(build, lay.mode, lay.cfg,
                                          RMul(lay.rect.w, lay.rect.h),
                                          RMul(lay.rect.w, lay.size[1]),
                                          RMul(lay.rect.h, lay.size[2]))]
  /\ UNCHANGED <<build, state, rafQueue, listeners, container, lastCall, lastOp, hist, env, svc>>

ScaleSpec == ScaleInit /\ [][ScaleApply]_vars

\* C31: the scale given to a tile is a number in the closed interval
\* [0.32, 3], for every rectangle, box, baseline and mode.
C31_ScaleInRange ==
  lay.pc = "done"
    => /\ IsFinite(lay.out.c) /\ IsFinite(lay.out.root) /\ RGe(lay.out.root, Zero)
       /\ scaleGe(lay.out, Frac(32, 100))
       /\ ~scaleGt(lay.out, Num(3))

\* the whole box as one tile, without the fit clamp: 0.42 + 3 is cut to 3
C31_Witness ==
  /\ lay.pc = "done" /\ lay.rect = [w |-> Num(1), h |-> Num(1)]
  /\ ~clampsByFit(build, lay.mode)
  /\ lay.out = plainScale(Num(3))

\* C32: after a tick that repainted, the container holds exactly the tile
\* elements of that draw, one per rectangle laid out for the stored tiles, and
\* no measurement probe.
C32_DrawReplacesOutput ==
  (build # "part_006" /\ lastOp.op = "tick" /\ painted(lastOp))
    => /\ container = (IF state.tiles = <<>> THEN <<>>
                       ELSE expectedOutput(build, lastCall, state._measureCache, lastOp.size))
       /\ Len(container) = Len(state.tiles)
       /\ ~lastOp.probeLeft

\* the same for the tile elements alone
C32_TilesReplaced ==
  (build # "part_006" /\ lastOp.op = "tick" /\ painted(lastOp))
    => /\ container = (IF state.tiles = <<>> THEN <<>>
                       ELSE expectedOutput(build, lastCall, state._measureCache, lastOp.size))
       /\ Len(container) = Len(state.tiles)

\* C33: on a surface whose settle counter has reached STABLE_FRAMES_REQUIRED
\* (it has settled and drawn), a renderHeatmap call or listener event queues
\* one tick, and that tick, reading a size within 0.5 px of the last seen one,
\* repaints at once with the stored inputs and queues no further tick.
C33_RepaintWhenSettled ==
  [][ (build # "part_006" /\ state._stableFrames >= STABLE_FRAMES_REQUIRED)
        => /\ lastOp'.op \in {"renderHeatmap", "listener"}
                => rafQueue' = 1 /\ state'.rafId # 0
           /\ (readStep /\ ~changedRead(state, lastOp'.size))
                => /\ painted(lastOp')
                   /\ rafQueue = 1 /\ rafQueue' = 0 /\ state'.rafId = 0
                   /\ container' = (IF state.tiles = <<>> THEN <<>>
                                    ELSE expectedOutput(build, lastCall,
                                                        state'._measureCache, lastOp'.size)) ]_vars

\* a settled surface repainted by the single tick of a later request: the
\* last two reads both drew, the second with the settle counter beyond
\* STABLE_FRAMES_REQUIRED, and no tick is queued
C33_Witness ==
  /\ lastOp.op = "tick" /\ lastOp.outcome = "drawn" /\ lastOp.queued = 1
  /\ state._stableFrames = STABLE_FRAMES_REQUIRED + 1
  /\ rafQueue = 0 /\ state.rafId = 0
  /\ Len(hist.reads) >= 2
  /\ hist.reads[Len(hist.reads) - 1].outcome = "drawn"
  /\ hist.reads[Len(hist.reads)].outcome = "drawn"

\* C34: a tick that reads a box below 2 px on an axis leaves the last-seen
\* size, both counters and the container as they were and queues no tick;
\* with no tick queued the container does not change, and a tick gets queued
\* only by a renderHeatmap call or a listener event.
C34_HiddenTick ==
  [][ build # "part_006"
        => /\ (lastOp'.op = "tick" /\ hiddenBox(lastOp'.size))
                => /\ lastOp'.outcome = "hidden"
                   /\ state'._lastW = state._lastW /\ state'._lastH = state._lastH
                   /\ state'._stableFrames = state._stableFrames
                   /\ state'._stabilizeTries = state._stabilizeTries
                   /\ container' = container
                   /\ rafQueue' = 0 /\ state'.rafId = 0
           /\ rafQueue = 0
                => /\ container' = container
                   /\ rafQueue' > 0 => lastOp'.op \in {"renderHeatmap", "listener"} ]_vars

\* a settled surface with output whose last tick read a hidden box: the
\* output and the counters are still there and no tick is queued
C34_Witness ==
  /\ lastOp.op = "tick" /\ lastOp.outcome = "hidden" /\ hiddenBox(lastOp.size)
  /\ container # <<>> /\ state._stableFrames >= STABLE_FRAMES_REQUIRED
  /\ rafQueue = 0 /\ state.rafId = 0


\* ---------------------------------------------------------------------------
\* The data services behind the S&P view: stocksService.js (Finnhub, one
\* request per symbol, with a local price history), part_005 (the same service
\* on batch quotes, without history), companyService.js and the refresh of
\* sp500Heatmap.js.  Time is the New York wall clock of toEstIso in seconds;
\* a date is a day number, day 0 being a Monday.
\* ---------------------------------------------------------------------------

\* null and undefined: the empty tuple; a value v that is there is <<v>>
Null == <<>>

\* the S&P universe, cut to two symbols
Symbols == {"AAPL", "MSFT"}

\* what a quote can carry as its price: a number, or nothing numeric
Prices == {100, 101}

\* an entry of a quotes object: absent, or { price, changePct1D } whose price
\* is a number or not (data.c missing from the answer)
NoQuote == [present |-> FALSE, numeric |-> FALSE, price |-> 0]
NoPrice == [present |-> TRUE, numeric |-> FALSE, price |-> 0]
quoteOf(p) == [present |-> TRUE, numeric |-> TRUE, price |-> p]

SECONDS_PER_DAY == 86400

HISTORY_WINDOW_DAYS == 14
HISTORY_MAX_SAMPLES == 10

getTodayEstDate(now) == now \div SECONDS_PER_DAY

isWeekendDate(day) == (day % 7) \in {5, 6}

\* new Date(today + 'T00:00:00') is local midnight and toISOString() prints it
\* in UTC: east of UTC that instant still belongs to the day before
cutoffStr(today, tzEast) ==
  (today - HISTORY_WINDOW_DAYS) - (IF tzEast THEN 1 ELSE 0)

RECURSIVE shiftWhileOver(_, _)
shiftWhileOver(arr, cap) ==
  IF Len(arr) > cap THEN shiftWhileOver(Tail(arr), cap) ELSE arr

\* the body of the forEach of updateHistoryFromQuotes for one symbol
updateSymbolHistory(arr, q, today, tzEast) ==
  IF ~q.present \/ ~q.numeric THEN arr
  ELSE LET n == Len(arr)
           pushed == IF n > 0 /\ arr[n].date = today
                     THEN [arr EXCEPT ![n].close = q.price]
                     ELSE Append(arr, [date |-> today, close |-> q.price])
           cut == cutoffStr(today, tzEast)
           filtered == SelectSeq(pushed, LAMBDA entry : entry.date >= cut)
       IN shiftWhileOver(filtered, HISTORY_MAX_SAMPLES)

\* quotes maps each symbol to its quote, or to NoQuote when the object has no
\* entry for it
updateHistoryFromQuotes(history, quotes, today, tzEast) ==
  IF isWeekendDate(today) THEN history
  ELSE [s \in DOMAIN history |->
          IF s \in DOMAIN quotes
          THEN updateSymbolHistory(history[s], quotes[s], today, tzEast)
          ELSE history[s]]

SP500_REFRESH_MINUTES == 10

\* 60 * 24 * 7: market caps are kept for a week
SP500_MARKETCAP_TTL_MINUTES == 10080

\* 60 * 24 * 3: a profile is refetched after three days
PROFILE_REFRESH_MINUTES == 4320

\* the delay of the follow-up timer and the period of setInterval, in seconds
FOLLOW_UP_SECONDS == 70
AUTO_REFRESH_SECONDS == 600

\* timezone.js: a missing stamp is older than anything, and the difference has
\* to exceed the period
isOlderThanMinutes(iso, minutes, now) ==
  IF iso = Null THEN TRUE ELSE now - iso[1] > minutes * 60

\* ---- companyService.js ------------------------------------------------------

\* what the profile request can come back with: an error (rate limit, network),
\* a profile without marketCapitalization, a profile with it
ProfileAnswers == {"fail", "nocap", "cap"}

\* the profile built from a successful answer; the service reports a market
\* capitalisation of 5 and a logo
answeredProfile(symbol, answer) ==
  [name |-> symbol, marketCap |-> IF answer = "cap" THEN <<5>> ELSE Null,
   logo |-> <<"https">>]

\* cached || { name: symbol, marketCap: null, logo: null }
placeholderProfile(symbol) == [name |-> symbol, marketCap |-> Null, logo |-> Null]

\* a getCompanyProfile that forgets the cache when the request fails
getCompanyProfileNoFallback(ps, symbol, now, answer) ==
  LET cached == ps.profiles[symbol]
      last == ps.fetchedAt[symbol]
  IN IF cached # Null /\ last # Null
          /\ ~isOlderThanMinutes(last, PROFILE_REFRESH_MINUTES, now)
     THEN [ps |-> ps, returned |-> cached[1], fetched |-> FALSE, failed |-> FALSE]
     ELSE IF answer = "fail"
     THEN [ps |-> ps, returned |-> placeholderProfile(symbol),
           fetched |-> TRUE, failed |-> TRUE]
     ELSE [ps |-> [profiles |-> [ps.profiles EXCEPT ![symbol] = <<answeredProfile(symbol, answer)>>],
                   fetchedAt |-> [ps.fetchedAt EXCEPT ![symbol] = <<now>>]],
           returned |-> answeredProfile(symbol, answer),
           fetched |-> TRUE, failed |-> FALSE]

\* getCompanyProfile(symbol) with the answer the request would get: the
\* profile state it leaves, what it returns, whether it sent the request
getCompanyProfile(ps, symbol, now, answer) ==
  LET cached == ps.profiles[symbol]
      last == ps.fetchedAt[symbol]
  IN IF cached # Null /\ last # Null
          /\ ~isOlderThanMinutes(last, PROFILE_REFRESH_MINUTES, now)
     THEN [ps |-> ps, returned |-> cached[1], fetched |-> FALSE, failed |-> FALSE]
     ELSE IF answer = "fail"
     THEN [ps |-> ps,
           returned |-> IF cached # Null THEN cached[1] ELSE placeholderProfile(symbol),
           fetched |-> TRUE, failed |-> TRUE]
     ELSE [ps |-> [profiles |-> [ps.profiles EXCEPT ![symbol] = <<answeredProfile(symbol, answer)>>],
                   fetchedAt |-> [ps.fetchedAt EXCEPT ![symbol] = <<now>>]],
           returned |-> answeredProfile(symbol, answer),
           fetched |-> TRUE, failed |-> FALSE]

\* what CapsDone lets the profile requests of a refresh come back with: when
\* the service answers a symbol of the S&P list, it reports its market cap
ListedAnswers == {"fail", "cap"}

\* ---- stocksService.js and part_005 -------------------------------------------

\* the two revisions of the service: stocksService.js asks Finnhub symbol by
\* symbol and keeps a price history, part_005 asks for batches and has neither
\* a history nor resetSp500Cache
ServiceVariants == {"stocksService", "part_005"}

\* what one quote refresh gets from the network, symbol by symbol: NoQuote is a
\* request that failed
QuoteAnswers == [Symbols -> {NoQuote, quoteOf(101)}]

\* sp500State as the module creates it, before loadCache and loadHistory
EmptySp500 ==
  [quotes |-> [s \in Symbols |-> NoQuote],
   weeklyChange |-> [s \in Symbols |-> Null],
   priceHistory |-> [s \in Symbols |-> <<>>],
   marketCaps |-> [s \in Symbols |-> Null],
   lastQuotesFetch |-> Null, lastWeeklyCalc |-> Null, lastMarketCapFetch |-> Null,
   status |-> "idle"]

\* the synchronous head of refreshQuotesIfNeeded: does it fetch
quotesStale(sp, now) ==
  isOlderThanMinutes(sp.lastQuotesFetch, SP500_REFRESH_MINUTES, now)

\* the tail of refreshQuotesIfNeeded, after the requests have come back
refreshQuotesDone(variant, sp, nowEstIso, answers, today, tzEast) ==
  IF variant = "stocksService"
  THEN [sp EXCEPT !.quotes = answers,
                  !.lastQuotesFetch = <<nowEstIso>>,
                  !.status = "ready",
                  !.priceHistory = updateHistoryFromQuotes(@, answers, today, tzEast)]
  ELSE IF \E s \in Symbols : ~answers[s].present
  THEN [sp EXCEPT !.status = "error"]
  ELSE [sp EXCEPT !.quotes = answers,
                  !.lastQuotesFetch = <<nowEstIso>>,
                  !.status = "ready"]

\* the synchronous head of refreshMarketCapsIfNeeded
marketCapsStale(sp, now) ==
  isOlderThanMinutes(sp.lastMarketCapFetch, SP500_MARKETCAP_TTL_MINUTES, now)

\* the symbols the loop of refreshMarketCapsIfNeeded calls getCompanyProfile for
capsWanted(marketCaps) == { s \in Symbols : marketCaps[s] = Null }

\* the loop and the tail of refreshMarketCapsIfNeeded: marketCaps is the copy
\* taken before the loop, answers what each profile request would get
refreshMarketCapsDone(sp, ps, marketCaps, nowEstIso, now, answers) ==
  LET got == [s \in Symbols |-> getCompanyProfile(ps, s, now, answers[s])]
      caps == [s \in Symbols |->
                 IF s \in capsWanted(marketCaps) /\ got[s].returned.marketCap # Null
                 THEN got[s].returned.marketCap ELSE marketCaps[s]]
      ps1 == [profiles |-> [s \in Symbols |->
                              IF s \in capsWanted(marketCaps)
                              THEN got[s].ps.profiles[s] ELSE ps.profiles[s]],
              fetchedAt |-> [s \in Symbols |->
                               IF s \in capsWanted(marketCaps)
                               THEN got[s].ps.fetchedAt[s] ELSE ps.fetchedAt[s]]]
  IN [sp |-> [sp EXCEPT !.marketCaps = caps, !.lastMarketCapFetch = <<nowEstIso>>],
      ps |-> ps1,
      asked |-> { s \in capsWanted(marketCaps) : got[s].fetched }]

\* a reset that clears the history with the cache
resetSp500CacheAll(sp) == EmptySp500

resetSp500Cache(sp) ==
  [EmptySp500 EXCEPT !.priceHistory = sp.priceHistory,
                     !.lastWeeklyCalc = sp.lastWeeklyCalc]

\* ---- sp500Heatmap.js --------------------------------------------------------

\* the symbols refresh() counts as missing their market cap
missingCaps(marketCaps) ==
  { s \in Symbols : ~(marketCaps[s] # Null /\ marketCaps[s][1] > 0) }

\* refresh() setting a timer whenever caps are missing
scheduleFollowUpUnguarded(timer, timers, marketCaps, now) ==
  IF missingCaps(marketCaps) # {}
  THEN [timer |-> <<now + FOLLOW_UP_SECONDS>>,
        timers |-> Append(timers, now + FOLLOW_UP_SECONDS)]
  ELSE [timer |-> timer, timers |-> timers]

\* the tail of refresh(), after getSp500Data has returned: a follow-up timer
\* is set when caps are missing and no timer is pending.  timer is the handle
\* followUpTimer, timers the callbacks the browser holds, by their due time
scheduleFollowUp(timer, timers, marketCaps, now) ==
  IF missingCaps(marketCaps) # {} /\ timer = Null
  THEN [timer |-> <<now + FOLLOW_UP_SECONDS>>,
        timers |-> Append(timers, now + FOLLOW_UP_SECONDS)]
  ELSE [timer |-> timer, timers |-> timers]

\* the day the history is loaded on: a Monday, two weeks after day 0
FirstDay == HISTORY_WINDOW_DAYS

RECURSIVE dailySamples(_, _)
dailySamples(a, b) ==
  IF a > b THEN <<>>
  ELSE IF isWeekendDate(b) THEN dailySamples(a, b - 1)
  ELSE Append(dailySamples(a, b - 1), [date |-> b, close |-> 100])

\* ---- the S&P view at work ------------------------------------------------------

\* how many times the clock moves in one run, and how many refresh() calls can
\* be waiting for the network at once
MaxAdvances == 1
MaxInFlight == 2

\* how many times refresh() is called in one run
MaxRefreshes == 3

ClockSteps == {FOLLOW_UP_SECONDS, AUTO_REFRESH_SECONDS}

\* the page is opened on the Monday two weeks after day 0, at midnight
SessionStart == FirstDay * SECONDS_PER_DAY

\* what loadCache and loadHistory of stocksService.js find from a session two
\* weeks ago: quotes, weekly changes, a history, the cap of AAPL only
SavedSp500 ==
  [quotes |-> [s \in Symbols |-> quoteOf(100)],
   weeklyChange |-> [s \in Symbols |-> <<1>>],
   priceHistory |-> [s \in Symbols |-> dailySamples(0, 0)],
   marketCaps |-> [s \in Symbols |-> IF s = "AAPL" THEN <<5>> ELSE Null],
   lastQuotesFetch |-> <<0>>, lastWeeklyCalc |-> <<0>>, lastMarketCapFetch |-> <<0>>,
   status |-> "idle"]

\* part_005 stores neither a history nor lastWeeklyCalc
savedFor(variant) ==
  IF variant = "stocksService" THEN SavedSp500
  ELSE [SavedSp500 EXCEPT !.priceHistory = EmptySp500.priceHistory,
                          !.lastWeeklyCalc = Null]

NoProfiles ==
  [profiles |-> [s \in Symbols |-> Null], fetchedAt |-> [s \in Symbols |-> Null]]

\* profiles of both symbols, fetched two weeks ago
SavedProfiles ==
  [profiles |-> [s \in Symbols |-> <<answeredProfile(s, "cap")>>],
   fetchedAt |-> [s \in Symbols |-> <<0>>]]

\* what the last step did: which refresh() it belongs to, whether it fetched,
\* the symbols whose request failed, the symbols getCompanyProfile was called
\* for, the status resetSp500Cache left
NoStep ==
  [op |-> "none", kind |-> "", fetched |-> FALSE, failed |-> {}, called |-> {},
   status |-> ""]

ServiceInit ==
  /\ build = "heatmap"
  /\ state = NoState
  /\ rafQueue = 0
  /\ listeners = [k \in ListenerKinds |-> 0]
  /\ container = <<>>
  /\ lastCall = NoCall
  /\ lastOp = [op |-> "none", size |-> NoSize, outcome |-> "", queued |-> 0,
              probeLeft |-> FALSE]
  /\ hist = [on |-> TRUE, reads |-> <<>>]
  /\ lay = IdleLay
  /\ env = Apis
  /\ svc \in { [fn |-> "service", variant |-> v, tzEast |-> FALSE,
                now |-> SessionStart, advances |-> 0, refreshes |-> 0,
                sp |-> IF saved THEN savedFor(v) ELSE EmptySp500,
                ps |-> IF saved THEN SavedProfiles ELSE NoProfiles,
                followUpTimer |-> Null, timers |-> <<>>,
                intervalDue |-> SessionStart + AUTO_REFRESH_SECONDS,
                calls |-> <<>>, last |-> NoStep] :
               v \in ServiceVariants, saved \in BOOLEAN }

removeAt(seq, i) == SubSeq(seq, 1, i - 1) \o SubSeq(seq, i + 1, Len(seq))

\* refresh() up to the first request of getSp500Data
startRefresh(s, kind) ==
  LET fetch == quotesStale(s.sp, s.now)
  IN [s EXCEPT
        !.refreshes = @ + 1,
        !.sp = IF fetch THEN [@ EXCEPT !.status = "loading"] ELSE @,
        !.calls = Append(@, [kind |-> kind, pc |-> "quotes", fetch |-> fetch,
                             nowEstIso |-> s.now,
                             marketCaps |-> EmptySp500.marketCaps]),
        !.last = [NoStep EXCEPT !.op = "refresh", !.kind = kind, !.fetched = fetch,
                                !.status = s.sp.status]]

othersUnchanged ==
  UNCHANGED <<build, state, rafQueue, listeners, container, lastCall, lastOp, hist, lay, env>>

\* initSp500Heatmap: the initial refresh() and setInterval
InitialRefresh ==
  /\ svc.fn = "service" /\ svc.refreshes = 0
  /\ svc' = startRefresh([svc EXCEPT !.intervalDue = svc.now + AUTO_REFRESH_SECONDS],
                         "initial")
  /\ othersUnchanged

\* the interval timer fires; a late interval does not pile up
IntervalRefresh ==
  /\ svc.fn = "service" /\ svc.refreshes \in 1..MaxRefreshes - 1
  /\ svc.now >= svc.intervalDue
  /\ Len(svc.calls) < MaxInFlight
  /\ svc' = startRefresh([svc EXCEPT !.intervalDue =
                            IF svc.now >= @ + AUTO_REFRESH_SECONDS
                            THEN svc.now + AUTO_REFRESH_SECONDS
                            ELSE @ + AUTO_REFRESH_SECONDS],
                         "interval")
  /\ othersUnchanged

\* the refresh button: resetSp500Cache(), then refresh()
RefreshClick ==
  /\ svc.fn = "service" /\ svc.refreshes \in 1..MaxRefreshes - 1
  /\ svc.variant = "stocksService"
  /\ Len(svc.calls) < MaxInFlight
  /\ svc' = startRefresh([svc EXCEPT !.sp = resetSp500Cache(@)], "click")
  /\ othersUnchanged

\* a follow-up timer fires: the handle is cleared, then refresh()
FollowUpFires ==
  /\ svc.fn = "service" /\ svc.refreshes < MaxRefreshes
  /\ Len(svc.calls) < MaxInFlight
  /\ \E i \in 1..Len(svc.timers) :
       /\ svc.now >= svc.timers[i]
       /\ svc' = startRefresh([svc EXCEPT !.followUpTimer = Null,
                                          !.timers = removeAt(@, i)],
                              "followUp")
  /\ othersUnchanged

\* the quote requests of one refresh() have come back: the tail of
\* refreshQuotesIfNeeded, then the head of refreshMarketCapsIfNeeded
QuotesDone ==
  /\ svc.fn = "service"
  /\ \E i \in 1..Len(svc.calls) : \E answers \in QuoteAnswers :
       LET call == svc.calls[i]
           sp1 == IF call.fetch
                  THEN refreshQuotesDone(svc.variant, svc.sp, call.nowEstIso, answers,
                                         getTodayEstDate(svc.now), svc.tzEast)
                  ELSE svc.sp
           caps == marketCapsStale(sp1, svc.now)
       IN /\ call.pc = "quotes"
          /\ call.fetch \/ answers = [s \in Symbols |-> NoQuote]
          /\ svc' = [svc EXCEPT
                       !.sp = sp1,
                       !.calls[i] = [call EXCEPT !.pc = "caps", !.fetch = caps,
                                                 !.nowEstIso = svc.now,
                                                 !.marketCaps = sp1.marketCaps],
                       !.last = [NoStep EXCEPT
                                   !.op = "quotes", !.kind = call.kind,
                                   !.fetched = call.fetch,
                                   !.failed = IF call.fetch
                                              THEN { s \in Symbols : ~answers[s].present }
                                              ELSE {},
                                   !.called = IF caps THEN capsWanted(sp1.marketCaps)
                                              ELSE {}]]
  /\ othersUnchanged

\* the profile requests of one refresh() have come back: the tail of
\* refreshMarketCapsIfNeeded, the return of getSp500Data and the rest of refresh()
CapsDone ==
  /\ svc.fn = "service"
  /\ \E i \in 1..Len(svc.calls) : \E answers \in [Symbols -> ListedAnswers] :
       LET call == svc.calls[i]
           done == refreshMarketCapsDone(svc.sp, svc.ps, call.marketCaps,
                                         call.nowEstIso, svc.now, answers)
           sp1 == IF call.fetch THEN done.sp ELSE svc.sp
           ps1 == IF call.fetch THEN done.ps ELSE svc.ps
           timer == scheduleFollowUp(svc.followUpTimer, svc.timers, sp1.marketCaps, svc.now)
       IN /\ call.pc = "caps"
          /\ call.fetch \/ answers = [s \in Symbols |-> "fail"]
          /\ svc' = [svc EXCEPT
                       !.sp = sp1, !.ps = ps1,
                       !.followUpTimer = timer.timer, !.timers = timer.timers,
                       !.calls = removeAt(@, i),
                       !.last = [NoStep EXCEPT
                                   !.op = "caps", !.kind = call.kind,
                                   !.fetched = call.fetch,
                                   !.called = IF call.fetch
                                              THEN capsWanted(call.marketCaps) ELSE {},
                                   !.failed = IF call.fetch
                                              THEN { s \in done.asked : answers[s] = "fail" }
                                              ELSE {}]]
  /\ othersUnchanged

\* time passes
ClockAdvance ==
  /\ svc.fn = "service"
  /\ svc.advances < MaxAdvances
  /\ \E d \in ClockSteps :
       svc' = [svc EXCEPT !.now = @ + d, !.advances = @ + 1,
                          !.last = [NoStep EXCEPT !.op = "clock"]]
  /\ othersUnchanged

ServiceNext ==
  \/ InitialRefresh \/ IntervalRefresh \/ RefreshClick \/ FollowUpFires
  \/ QuotesDone \/ CapsDone \/ ClockAdvance

ServiceSpec == ServiceInit /\ [][ServiceNext]_vars

\* ---- the price history alone: updateHistoryFromQuotes over the days --------

\* how many times midnight passes in one run
MaxDayPasses == 2

DaySteps == {1, 15}

\* what loadHistory can find: nothing, or the samples that daily updates from
\* day a to day b have left
SavedHistories ==
  {<<>>} \cup { shiftWhileOver(dailySamples(a, b), HISTORY_MAX_SAMPLES) :
                a \in 0..FirstDay, b \in 0..FirstDay }

HistoryInit ==
  /\ build = "heatmap"
  /\ state = NoState
  /\ rafQueue = 0
  /\ listeners = [k \in ListenerKinds |-> 0]
  /\ container = <<>>
  /\ lastCall = NoCall
  /\ lastOp = [op |-> "none", size |-> NoSize, outcome |-> "", queued |-> 0,
              probeLeft |-> FALSE]
  /\ hist = [on |-> TRUE, reads |-> <<>>]
  /\ lay = IdleLay
  /\ env = Apis
  /\ svc \in { [fn |-> "history", tzEast |-> tz, today |-> FirstDay, passes |-> 0,
                history |-> [s \in {"AAPL"} |-> h],
                before |-> [s \in {"AAPL"} |-> h], op |-> "none"] :
               tz \in BOOLEAN, h \in SavedHistories }

\* midnight passes, once or several times
HistoryDayPasses ==
  /\ svc.fn = "history"
  /\ svc.passes < MaxDayPasses
  /\ \E d \in DaySteps :
       svc' = [svc EXCEPT !.today = @ + d, !.passes = @ + 1, !.op = "day",
                          !.before = svc.history]
  /\ UNCHANGED <<build, state, rafQueue, listeners, container, lastCall, lastOp, hist, lay, env>>

\* a quote refresh hands its quotes to updateHistoryFromQuotes
HistoryUpdate ==
  /\ svc.fn = "history"
  /\ \E q \in {quoteOf(p) : p \in Prices} \cup {NoPrice} :
       svc' = [svc EXCEPT
                 !.history = updateHistoryFromQuotes(
                               svc.history, [s \in {"AAPL"} |-> q],
                               svc.today, svc.tzEast),
                 !.before = svc.history,
                 !.op = IF q.numeric THEN "update" ELSE "noPrice"]
  /\ UNCHANGED <<build, state, rafQueue, listeners, container, lastCall, lastOp, hist, lay, env>>

HistorySpec == HistoryInit /\ [][HistoryDayPasses \/ HistoryUpdate]_vars


sampleDates(h) == { h[i].date : i \in 1..Len(h) }

\* at most 10 samples, one per date, in increasing date order
historyWellFormed(h) ==
  /\ Len(h) <= HISTORY_MAX_SAMPLES
  /\ \A i \in 1..Len(h) - 1 : h[i].date < h[i + 1].date

\* a weekend call and a quote without a numeric price change nothing; a second
\* update on one day keeps the number of samples
historyFrame ==
  /\ svc.op = "noPrice" => svc.history = svc.before
  /\ (svc.op = "update" /\ isWeekendDate(svc.today)) => svc.history = svc.before
  /\ (svc.op = "update" /\ ~isWeekendDate(svc.today)
        /\ svc.today \in sampleDates(svc.before["AAPL"]))
       => /\ Len(svc.history["AAPL"]) = Len(svc.before["AAPL"])
          /\ sampleDates(svc.history["AAPL"]) = sampleDates(svc.before["AAPL"])

\* C39: after any sequence of updateHistoryFromQuotes calls with non-decreasing
\* dates the history of a symbol holds at most 10 samples, one per date, in
\* increasing date order, none older than 14 days before the latest update;
\* a weekend call and a quote without a numeric price change nothing.
C39_PriceHistory ==
  svc.fn = "history"
    => /\ historyWellFormed(svc.history["AAPL"])
       /\ historyFrame
       /\ (svc.op = "update" /\ ~isWeekendDate(svc.today))
            => \A d \in sampleDates(svc.history["AAPL"]) :
                 d >= svc.today - HISTORY_WINDOW_DAYS

\* everything C39 says but the age of the oldest sample
C39_ExceptAge ==
  svc.fn = "history" => historyWellFormed(svc.history["AAPL"]) /\ historyFrame

\* the age limit where midnight local time is not the day before in UTC
C39_AgeWestOfUtc ==
  (svc.fn = "history" /\ ~svc.tzEast /\ svc.op = "update" /\ ~isWeekendDate(svc.today))
    => \A d \in sampleDates(svc.history["AAPL"]) : d >= svc.today - HISTORY_WINDOW_DAYS

\* the hard cap at work: the eleventh sample pushes the oldest one out
C39_CapReached ==
  /\ svc.fn = "history" /\ svc.op = "update"
  /\ Len(svc.before["AAPL"]) = HISTORY_MAX_SAMPLES
  /\ Len(svc.history["AAPL"]) = HISTORY_MAX_SAMPLES
  /\ svc.today \notin sampleDates(svc.before["AAPL"])
  /\ svc.today \in sampleDates(svc.history["AAPL"])


\* the step is the return of the quote requests of a refresh, some of them failed
quotesFailedStep ==
  /\ svc'.fn = "service" /\ svc'.last.op = "quotes" /\ svc'.last.failed # {}

\* C35: when the quote fetch of getSp500Data fails, for one symbol or for all,
\* the quotes stored (and then returned) for the symbols that failed are the
\* previously cached ones.
C35_QuotesKeptOnFailure ==
  [][quotesFailedStep
       => \A s \in svc'.last.failed : svc'.sp.quotes[s] = svc.sp.quotes[s]]_vars

\* the batch revision (part_005) does keep the cache on a failed fetch
C35_BatchKeepsCache ==
  [][(quotesFailedStep /\ svc.variant = "part_005")
       => /\ svc'.sp.quotes = svc.sp.quotes
          /\ svc'.sp.lastQuotesFetch = svc.sp.lastQuotesFetch]_vars


\* the quotes of a follow-up refresh are in and its market-cap refresh has begun
followUpAtCaps ==
  /\ svc.fn = "service" /\ svc.last.op = "quotes" /\ svc.last.kind = "followUp"

\* C36: the follow-up refresh re-attempts the profile fetch for the symbols
\* that are still without a market cap, so that they get one as soon as the
\* profile service answers again.
C36_FollowUpRetries ==
  followUpAtCaps => missingCaps(svc.sp.marketCaps) \subseteq svc.last.called

\* what does hold: a refresh that returns with a cap missing leaves a follow-up
\* timer pending, and one that returns with every cap sets none
C36_TimerWhileMissing ==
  [][(svc'.fn = "service" /\ svc'.last.op = "caps")
       => /\ missingCaps(svc'.sp.marketCaps) # {} => svc'.followUpTimer # Null
          /\ missingCaps(svc'.sp.marketCaps) = {} => svc'.timers = svc.timers]_vars


\* C37: at most one follow-up timer is pending at any time, whatever the
\* interleaving of the initial refresh, interval refreshes, clicks and
\* follow-up refreshes with overlapping fetches; the handle followUpTimer is
\* set exactly while a timer is pending, and it is cleared when the follow-up
\* refresh starts.
C37_OneFollowUpTimer ==
  svc.fn = "service"
    => /\ Len(svc.timers) <= 1
       /\ (svc.followUpTimer # Null) <=> (svc.timers # <<>>)
       /\ svc.timers # <<>> => svc.timers[1] = svc.followUpTimer[1]
       /\ (svc.last.op = "refresh" /\ svc.last.kind = "followUp")
            => svc.followUpTimer = Null

\* a refresh returns with a cap missing while another one is still in flight
\* and the timer set by an earlier return is still pending
C37_Witness ==
  /\ svc.fn = "service" /\ svc.last.op = "caps"
  /\ missingCaps(svc.sp.marketCaps) # {}
  /\ Len(svc.calls) = 1
  /\ Len(svc.timers) = 1
  /\ svc.timers[1] < svc.now + FOLLOW_UP_SECONDS


\* the step is a click on the refresh button: resetSp500Cache(), then refresh()
clickStep ==
  /\ svc'.fn = "service" /\ svc'.last.op = "refresh" /\ svc'.last.kind = "click"

\* C38: resetSp500Cache empties quotes, weeklyChange and marketCaps, nulls
\* lastQuotesFetch and lastMarketCapFetch and leaves the status 'idle', while
\* priceHistory and lastWeeklyCalc stay what they were; the getSp500Data that
\* follows fetches the quotes whatever the age of the previous fetch.
C38_ResetKeepsHistory ==
  [][clickStep
       => /\ \A s \in Symbols : /\ svc'.sp.quotes[s] = NoQuote
                                /\ svc'.sp.weeklyChange[s] = Null
                                /\ svc'.sp.marketCaps[s] = Null
          /\ svc'.sp.lastQuotesFetch = Null
          /\ svc'.sp.lastMarketCapFetch = Null
          /\ svc'.last.status = "idle"
          /\ svc'.sp.priceHistory = svc.sp.priceHistory
          /\ svc'.sp.lastWeeklyCalc = svc.sp.lastWeeklyCalc
          /\ svc'.last.fetched]_vars

\* a click after a quote fetch of this session, less than ten minutes old, has
\* left today's sample in the history, and the weekly stamp of the saved
\* history is still there
C38_Witness ==
  /\ svc.fn = "service" /\ svc.last.op = "refresh" /\ svc.last.kind = "click"
  /\ svc.last.fetched
  /\ getTodayEstDate(svc.now) \in sampleDates(svc.sp.priceHistory["AAPL"])
  /\ svc.sp.lastWeeklyCalc # Null


\* ---- companyService.js alone: getCompanyProfile over the days -----------------

\* a day, and a second more than the refresh period of a profile
ProfileClockSteps == {SECONDS_PER_DAY, PROFILE_REFRESH_MINUTES * 60 + 1}

NoProfileCall ==
  [op |-> "none", symbol |-> "", fetched |-> FALSE, failed |-> FALSE,
   returned |-> placeholderProfile("")]

ProfileInit ==
  /\ build = "heatmap"
  /\ state = NoState
  /\ rafQueue = 0
  /\ listeners = [k \in ListenerKinds |-> 0]
  /\ container = <<>>
  /\ lastCall = NoCall
  /\ lastOp = [op |-> "none", size |-> NoSize, outcome |-> "", queued |-> 0,
              probeLeft |-> FALSE]
  /\ hist = [on |-> TRUE, reads |-> <<>>]
  /\ lay = IdleLay
  /\ env = Apis
  /\ svc \in { [fn |-> "profile", now |-> SessionStart, advances |-> 0,
                ps |-> ps, last |-> NoProfileCall] :
               ps \in {NoProfiles, SavedProfiles} }

\* a view asks for a profile (refreshMarketCapsIfNeeded, earningsService.js:123)
ProfileCall ==
  /\ svc.fn = "profile"
  /\ \E symbol \in Symbols : \E answer \in ProfileAnswers :
       LET got == getCompanyProfile(svc.ps, symbol, svc.now, answer)
       IN /\ got.fetched \/ answer = "fail"
          /\ svc' = [svc EXCEPT
                       !.ps = got.ps,
                       !.last = [op |-> "profile", symbol |-> symbol,
                                 fetched |-> got.fetched, failed |-> got.failed,
                                 returned |-> got.returned]]
  /\ othersUnchanged

ProfileClock ==
  /\ svc.fn = "profile"
  /\ svc.advances < MaxAdvances
  /\ \E d \in ProfileClockSteps :
       svc' = [svc EXCEPT !.now = @ + d, !.advances = @ + 1,
                          !.last = NoProfileCall]
  /\ othersUnchanged

ProfileSpec == ProfileInit /\ [][ProfileCall \/ ProfileClock]_vars

\* the step is a getCompanyProfile whose request failed
profileFailedStep ==
  /\ svc'.fn = "profile" /\ svc'.last.op = "profile" /\ svc'.last.failed

\* C40: on a failed fetch getCompanyProfile returns the cached profile of the
\* symbol if there is one, however old, and otherwise the placeholder
\* {name: symbol, marketCap: null, logo: null}; profiles and fetch stamps are
\* unchanged by the failed call, so the next call sends the request again.
C40_ProfileFallback ==
  [][profileFailedStep
       => LET symbol == svc'.last.symbol
          IN /\ svc'.last.returned =
                  (IF svc.ps.profiles[symbol] # Null THEN svc.ps.profiles[symbol][1]
                   ELSE [name |-> symbol, marketCap |-> Null, logo |-> Null])
             /\ svc'.ps = svc.ps
             /\ \A answer \in ProfileAnswers :
                  getCompanyProfile(svc'.ps, symbol, svc'.now, answer).fetched]_vars

\* the request failed for a symbol whose cached profile, with a market cap, is
\* older than the three days
C40_Witness ==
  /\ svc.fn = "profile" /\ svc.last.op = "profile" /\ svc.last.failed
  /\ svc.ps.profiles[svc.last.symbol] # Null
  /\ isOlderThanMinutes(svc.ps.fetchedAt[svc.last.symbol], PROFILE_REFRESH_MINUTES, svc.now)
  /\ svc.last.returned.marketCap # Null
  /\ svc.ps.fetchedAt[svc.last.symbol][1] > 0

====
